---- MODULE Spec2Model ----
(***************************************************************************)
(* Model of the eclale chart timing core, strip triangulation, merged      *)
(* meshes, renderer and frame loop.                                        *)
(*                                                                         *)
(*   eclale_chart/src/parse/ogkr.rs   create_z_position_calculator,        *)
(*                                    z_position, OgkrChartCreator::new,   *)
(*                                    create_chart_from_ogkr_file          *)
(*   eclale_chart/src/util.rs         ZPositionCalculator::new,            *)
(*                                    ZPositionCalculator::z_position_at   *)
(*   eclale_graphics/src/geometry/plane.rs  Plane::triangulate_from_two_sides *)
(*   eclale/src/renderer/track_description.rs  create_hold_notes,          *)
(*                                    create_lanes, get_base_color_*       *)
(*   eclale/src/renderer/track_renderer.rs  update_evade_notes, render     *)
(*   eclale_graphics/src/renderer/mod.rs  Renderer::new, render,           *)
(*                                    update_instanced_renderer_instance_gpu_data *)
(*   eclale/src/main.rs               the redraw handler                   *)
(*                                                                         *)
(* f32 values are modelled as exact rationals <<numerator, denominator>>.  *)
(* The tempo, time-signature, subdivision, offset and speed values drawn   *)
(* below are chosen so that every f32 operation of the source is exact on  *)
(* them (all intermediate values are small dyadic rationals), so the       *)
(* rational value is the f32 value the code computes.                      *)
(***************************************************************************)
EXTENDS Integers, Sequences, FiniteSets, TLC

VARIABLES
    \* ---- inputs of OgkrChartCreator::create_z_position_calculator ----
    bpm_changes,                    \* composition.bpm_changes, in key order
    meter_changes,                  \* composition.meter_changes, in key order
    soflans,                        \* composition.soflans, in key order
    num_measures,                   \* num_measures argument
    \* ---- locals of create_z_position_calculator ----
    current_bpm_change,             \* number of consumed bpm changes
    current_time_signature_change,  \* number of consumed meter changes
    current_soflan,                 \* number of consumed soflans
    current_measure,                \* running MeasureCompositionData
    measure_index,                  \* loop variable
    measure_compositions,           \* Vec<MeasureCompositionData>
    \* ---- arguments and fields of ZPositionCalculator ----
    music_offset,                   \* music_offset argument of new
    z_base_speed,                   \* z_base_speed argument / field
    measures,                       \* ZPositionCalculator.measures
    \* ---- last z_position_at call ----
    call,                           \* <<measure, subdivision_index>> or <<>>
    result,                         \* <<"none">>, <<"ok", time, z>>, <<"panic">>
    pc,
    \* ---- Plane::triangulate_from_two_sides ----
    side_a_vertices,
    side_b_vertices,
    overflow_checks,                \* whether the build panics on integer overflow
    plane,                          \* <<"none">>, <<"ok", vertices, indices>>, <<"panic">>
    tri_pc,
    \* ---- TrackDescriptionCreator::create_hold_notes / create_lanes ----
    mosv_kind,                      \* "hold_notes" or "lanes"
    mosv_input,                     \* the notes / lanes in iteration order
    mosv_cursor,                    \* number of notes / lanes consumed by the fold
    mosv_vertices_len,              \* vertices.len() of the fold accumulator
    mosv_indices,                   \* indices, one chunk per merged mesh
    mosv_objects,                   \* objects
    mosv_objects_indices,           \* objects_indices, one run per merged mesh
    mosv_pc,                        \* "idle", "fold", "done", "panic"
    \* ---- eclale_graphics Renderer ----
    instanced_draw_data,            \* render_description.instanced_draw_data
    mosv_draw_data,                 \* render_description.mosv_draw_data
    graphics_pipelines_len,         \* graphics_pipelines.len()
    renderers_grouped_by_pipeline,  \* Renderer.renderers_grouped_by_pipeline
    instance_buffers,               \* storage_buffer_instances of each instanced renderer
    frame_log,                      \* what the last frame did, in order
    update_call,                    \* <<renderer_index, data>> of the last update call
    update_result,                  \* result of the last instance-data update call
    render_pc,                      \* "idle", "new", "ready", "panic"; in the redraw
                                    \* handler the call that comes next
    \* ---- eclale TrackRenderer and the redraw handler of main ----
    evade_notes_instances,          \* evade_notes_data.evade_notes_instances
    gpu_object_instances,           \* evade_notes_data.gpu_object_instances
    elapsed_time,                   \* elapsed_time of main
    current_runner_position,        \* current_runner_position of main
    scene_uniform,                  \* TrackRenderer.scene_uniform
    uniform_buffer_global,          \* contents of shared_gpu_resources.uniform_buffer_global
    copying,                        \* <<>> or the copy into mapped memory that
                                    \* may still be running
    \* ---- get_base_color_hit / get_base_color_lane ----
    color_kind,                     \* "hit" or "lane"
    color_code,                     \* the u16 of HitNoteType / LaneType
    color_result,                   \* <<"none">> or <<"ok", colour>>
    \* ---- create_chart_from_ogkr_file and the start of main ----
    ogkr_header,                    \* ogkr.header: each field a value or "None"
    ogkr_body,                      \* what new() and create() read of ogkr besides
                                    \* the header
    parse_ok,                       \* whether parse_ogkr returns Ok
    chart,                          \* <<"none">> or <<"chart", ..>>
    main_pc,                        \* "idle", "start", "chart", "description",
                                    \* "renderer", "rendered", "failed"
    \* ---- OgkrChartCreator::create_evade_notes ----
    bullets,                        \* ogkr.bullets.all_bullets(), each with its palette
    bullet_cursor,                  \* number of bullets the loop has visited
    evade_notes,                    \* evade_notes
    evade_pc,                       \* "idle", "loop", "done", "panic"
    \* ---- a caller of z_position_at that keeps one earlier answer ----
    remembered,                     \* <<>> or <<measure, subdivision_index, result>>
    \* ---- lyzumu_graphics CommandBufferManager ----
    command_buffer_manager,         \* command_buffers (the pool each was allocated
                                    \* from), num_command_buffers_per_pool,
                                    \* num_used_command_buffers_per_pool
    handed,                         \* per pool: the buffers handed out since the
                                    \* pool's last reset, in order
    last_request,                   \* <<>> or <<pool_index, buffers used before the
                                    \*           call, result>> of the last request
    \* ---- lyzumu_graphics Device: frames in flight ----
    frame_counters,                 \* current, previous, absolute
    semaphore_graphics_frame,       \* counter of the timeline semaphore
    gpu_queue,                      \* submissions the queue has not completed yet
    commands,                       \* the frame's command buffer: None or Some(index)
    device_pc                       \* "idle", "begin", "record", "submit", "present",
                                    \* "wait_idle", "failed"

timeline_vars ==
    <<bpm_changes, meter_changes, soflans, num_measures, current_bpm_change,
      current_time_signature_change, current_soflan, current_measure,
      measure_index, measure_compositions, music_offset, z_base_speed,
      measures, call, result, pc>>

tri_vars == <<side_a_vertices, side_b_vertices, overflow_checks, plane, tri_pc>>

mosv_vars ==
    <<mosv_kind, mosv_input, mosv_cursor, mosv_vertices_len, mosv_indices,
      mosv_objects, mosv_objects_indices, mosv_pc>>

renderer_vars ==
    <<instanced_draw_data, mosv_draw_data, graphics_pipelines_len,
      renderers_grouped_by_pipeline, instance_buffers, frame_log, update_call,
      update_result, render_pc>>

frame_vars ==
    <<evade_notes_instances, gpu_object_instances, elapsed_time,
      current_runner_position, scene_uniform, uniform_buffer_global, copying>>

color_vars == <<color_kind, color_code, color_result>>

load_vars == <<ogkr_header, ogkr_body, parse_ok, chart, main_pc>>

evade_vars == <<bullets, bullet_cursor, evade_notes, evade_pc>>

resolve_vars == <<remembered>>

command_vars == <<command_buffer_manager, handed, last_request>>

device_vars == <<frame_counters, semaphore_graphics_frame, gpu_queue, commands, device_pc>>

gpu_vars == <<command_vars, device_vars>>

extra_vars == <<evade_vars, resolve_vars, gpu_vars>>

aux_vars == <<color_vars, load_vars, extra_vars>>

render_vars == <<mosv_vars, renderer_vars, frame_vars, aux_vars>>

vars == <<timeline_vars, tri_vars, render_vars>>

----------------------------------------------------------------------------
(* Bounds of the model.                                                    *)

MaxMeasures == 3        \* largest num_measures (and longest direct timeline)
MaxChanges == 3         \* largest total number of changes over the three lists
MaxSideLen == 4         \* longest input side of a strip

\* Trigger measures of changes: the source treats them as 1-based
\* ("-1 because measure starts from 1"); keys beyond num_measures are included.
ChangeMeasures == 0..MaxMeasures

BpmValues == {120, 240}
TimeSignatures == {[num_beats |-> 4, note_value |-> 4],
                   [num_beats |-> 6, note_value |-> 8]}
SpeedMultipliers == {<<2, 1>>}
Subdivisions == {2, 4}
HeaderSubdivisions == {4}
MusicOffsets == {<<0, 1>>, <<1, 2>>}
ZBaseSpeeds == {<<1, 1>>, <<2, 1>>}
StartingBpm == 120
StartingTimeSignature == [num_beats |-> 4, note_value |-> 4]
StartingSpeedMultiplier == <<1, 1>>
PointValues == {"p", "q"}

----------------------------------------------------------------------------
(* Exact arithmetic standing for the f32 operations of the source.         *)

RECURSIVE GCD(_, _)
GCD(a, b) == IF b = 0 THEN a ELSE GCD(b, a % b)

Abs(n) == IF n < 0 THEN -n ELSE n

Norm(n, d) ==
    LET g == GCD(Abs(n), d)
    IN  IF g = 0 THEN <<0, 1>> ELSE <<n \div g, d \div g>>

F(n) == <<n, 1>>
FAdd(a, b) == Norm(a[1] * b[2] + b[1] * a[2], a[2] * b[2])
FSub(a, b) == Norm(a[1] * b[2] - b[1] * a[2], a[2] * b[2])
FMul(a, b) == Norm(a[1] * b[1], a[2] * b[2])
\* Division by a positive value (every divisor of the model is positive).
FDiv(a, b) == Norm(a[1] * b[2], a[2] * b[1])
FLe(a, b) == a[1] * b[2] <= b[1] * a[2]

Zero == F(0)
One == F(1)

----------------------------------------------------------------------------
(* eclale_chart/src/util.rs                                                *)

MeasureCompositionData(ts, bpm, speed, sub) ==
    [time_signature |-> ts, bpm |-> bpm, speed_multiplier |-> speed,
     subdivision |-> sub]

ZPosition(time, z) == [time |-> time, z |-> z]

\* Mutant of BeatDuration: beats per second instead of seconds per beat.
BeatDurationInverted(bpm) == FDiv(F(bpm), F(60))

\* 60.0 / bpm as f32
BeatDuration(bpm) == FDiv(F(60), F(bpm))

\* num_beats * beat_duration * (4.0 / note_value)
ZDurationTime(measure) ==
    FMul(FMul(F(measure.time_signature.num_beats), BeatDuration(measure.bpm)),
         FDiv(F(4), F(measure.time_signature.note_value)))

\* num_beats * beat_duration * (4.0 / note_value) * z_base_speed
\* (the speed multiplier of the measure is not applied)
ZDurationLength(measure, base_speed) ==
    FMul(FMul(FMul(F(measure.time_signature.num_beats), BeatDuration(measure.bpm)),
              FDiv(F(4), F(measure.time_signature.note_value))),
         base_speed)

\* Mutant of AdvancePosition: the duration is subtracted.
AdvancePositionBackwards(current_position, measure, base_speed) ==
    ZPosition(FSub(current_position.time, ZDurationTime(measure)),
              FSub(current_position.z, ZDurationLength(measure, base_speed)))

\* The running position after a measure: current_position += duration.
AdvancePosition(current_position, measure, base_speed) ==
    ZPosition(FAdd(current_position.time, ZDurationTime(measure)),
              FAdd(current_position.z, ZDurationLength(measure, base_speed)))

\* Mutant of ScanSeed: the scan starts at zero whatever the music offset.
ScanSeedZero(offset, base_speed) == ZPosition(Zero, Zero)

\* The seed of the scan: ZPosition::new(music_offset, music_offset.0 * z_base_speed)
ScanSeed(offset, base_speed) == ZPosition(offset, FMul(offset, base_speed))

\* One MeasureData of the scan.
MeasureData(current_position, measure, base_speed) ==
    [composition |-> measure,
     position |-> [offset |-> current_position,
                   duration |-> ZPosition(ZDurationTime(measure),
                                          ZDurationLength(measure, base_speed))]]

\* The scan of ZPositionCalculator::new over positions k..Len(compositions).
RECURSIVE ScanMeasures(_, _, _, _)
ScanMeasures(compositions, k, current_position, base_speed) ==
    IF k > Len(compositions) THEN <<>>
    ELSE <<MeasureData(current_position, compositions[k], base_speed)>>
         \o ScanMeasures(compositions, k + 1,
                         AdvancePosition(current_position, compositions[k], base_speed),
                         base_speed)

\* ZPositionCalculator::new: the measures field.
ZPositionCalculatorNew(compositions, offset, base_speed) ==
    ScanMeasures(compositions, 1, ScanSeed(offset, base_speed), base_speed)

\* Mutant of Ratio: the tick is taken as 0-based.
RatioZeroBased(subdivision_index, subdivision) ==
    FDiv(F(subdivision_index), F(subdivision))

\* Mutant of Ratio: the ratio is measured from the end of the measure.
RatioFromEnd(subdivision_index, subdivision) ==
    FDiv(FSub(F(subdivision), FSub(F(subdivision_index), One)), F(subdivision))

\* (subdivision_index - 1.0) / subdivision
Ratio(subdivision_index, subdivision) ==
    FDiv(FSub(F(subdivision_index), One), F(subdivision))

\* self.measures[measure]: indexing past the end panics.
MeasureInRange(ms, measure) == measure < Len(ms)

\* Mutant of ZPositionAt: an out-of-range measure is clamped to the last one.
ZPositionAtClamped(ms, measure, subdivision_index) ==
    LET m == IF measure < Len(ms) THEN measure ELSE Len(ms) - 1
        position_data == ms[m + 1].position
        ratio == Ratio(subdivision_index, ms[m + 1].composition.subdivision)
    IN  <<"ok",
          FAdd(position_data.offset.time, FMul(ratio, position_data.duration.time)),
          FAdd(position_data.offset.z, FMul(ratio, position_data.duration.z))>>

\* ZPositionCalculator::z_position_at; measure is a 0-based usize.
ZPositionAt(ms, measure, subdivision_index) ==
    IF ~MeasureInRange(ms, measure) THEN <<"panic">>
    ELSE LET subdivision == ms[measure + 1].composition.subdivision
             position_data == ms[measure + 1].position
             ratio == Ratio(subdivision_index, subdivision)
         IN  <<"ok",
               FAdd(position_data.offset.time, FMul(ratio, position_data.duration.time)),
               FAdd(position_data.offset.z, FMul(ratio, position_data.duration.z))>>

----------------------------------------------------------------------------
(* eclale_chart/src/parse/ogkr.rs                                          *)

TimingPoint(measure, beat_offset) == [measure |-> measure, beat_offset |-> beat_offset]

\* OgkrChartCreator::z_position: time.measure is passed as the measure index.
NoteMeasureIndex(time) == time.measure

ZPositionOfTimingPoint(ms, time) ==
    ZPositionAt(ms, NoteMeasureIndex(time), time.beat_offset)

\* Half of u32::MAX, rounded down: u32::MAX = 2 * U32MaxHalf + 1.
U32MaxHalf == 2147483647

\* `timing_point.measure - 1` on u32 overflows for measure 0: a build with overflow
\* checks panics there, a build without them wraps to u32::MAX.
ChangeSubOverflows(timing_point_measure) == timing_point_measure < 1

\* measure_index >= timing_point.measure - 1  ("-1 because measure starts from 1"),
\* with the wrapped difference when the subtraction overflows:
\* index >= u32::MAX is index - U32MaxHalf > U32MaxHalf.
ChangeDue(index, timing_point_measure) ==
    IF ChangeSubOverflows(timing_point_measure)
    THEN index - U32MaxHalf > U32MaxHalf
    ELSE index >= timing_point_measure - 1

\* if let Some((timing_point, ..)) = cursor.clone().next(): the list has a pending
\* change and the subtraction of its test overflows.
PeekOverflows(changes, cursor) ==
    /\ cursor < Len(changes)
    /\ ChangeSubOverflows(changes[cursor + 1].measure)

\* if let Some(..) = cursor.clone().next() { if due { apply; cursor.next() } }
\* for one list: whether the next pending change is applied at this index.
NextChangeApplies(changes, cursor, index) ==
    /\ cursor < Len(changes)
    /\ ChangeDue(index, changes[cursor + 1].measure)

\* The cursor of one list after the step at this index.
CursorAfter(changes, cursor, index) ==
    IF NextChangeApplies(changes, cursor, index) THEN cursor + 1 ELSE cursor

\* The field of the running composition after the step at this index.
FieldAfter(changes, cursor, index, old) ==
    IF NextChangeApplies(changes, cursor, index) THEN changes[cursor + 1].value ELSE old

\* The body of `for measure_index in 0..num_measures`: the running composition
\* after the three lists were visited.
FoldedMeasure(index) ==
    MeasureCompositionData(
        FieldAfter(meter_changes, current_time_signature_change, index,
                   current_measure.time_signature),
        FieldAfter(bpm_changes, current_bpm_change, index, current_measure.bpm),
        FieldAfter(soflans, current_soflan, index, current_measure.speed_multiplier),
        current_measure.subdivision)

\* for measure_index in 0..num_measures
LoopRange(n) == 0..(n - 1)

\* Change lists: sequences of [measure, value] in key order (a BTreeMap keyed by
\* timing point iterates in measure order; two keys may share a measure).
ChangeLists(values, n) ==
    {s \in [1..n -> [measure : ChangeMeasures, value : values]] :
        \A i \in 1..(n - 1) : s[i].measure <= s[i + 1].measure}

InitMosvIdle ==
    /\ mosv_kind = "hold_notes"
    /\ mosv_input = <<>>
    /\ mosv_cursor = 0
    /\ mosv_vertices_len = 0
    /\ mosv_indices = <<>>
    /\ mosv_objects = <<>>
    /\ mosv_objects_indices = <<>>
    /\ mosv_pc = "idle"

InitRendererIdle ==
    /\ instanced_draw_data = <<>>
    /\ mosv_draw_data = <<>>
    /\ graphics_pipelines_len = 0
    /\ renderers_grouped_by_pipeline = <<>>
    /\ instance_buffers = <<>>
    /\ frame_log = <<>>
    /\ update_call = <<>>
    /\ update_result = "none"
    /\ render_pc = "idle"

InitFrameIdle ==
    /\ evade_notes_instances = <<>>
    /\ gpu_object_instances = <<>>
    /\ elapsed_time = <<0, 1>>
    /\ current_runner_position = <<0, 1>>
    /\ scene_uniform = <<>>
    /\ uniform_buffer_global = <<>>
    /\ copying = <<>>

InitColorIdle ==
    /\ color_kind = "hit"
    /\ color_code = 0
    /\ color_result = <<"none">>

InitLoadIdle ==
    /\ ogkr_header = <<>>
    /\ ogkr_body = <<>>
    /\ parse_ok = TRUE
    /\ chart = <<"none">>
    /\ main_pc = "idle"

InitEvadeIdle ==
    /\ bullets = <<>>
    /\ bullet_cursor = 0
    /\ evade_notes = <<>>
    /\ evade_pc = "idle"

InitResolveIdle == remembered = <<>>

\* pub const MAX_FRAMES: usize = 2
MAX_FRAMES == 2

\* The num_command_buffers_per_pool Device::new passes.
DeviceBuffersPerPool == 1

\* CommandBufferManager::new: every pool allocates its buffers and the lists are
\* flattened in pool order; a buffer is modelled by its 0-based place in
\* command_buffers, and command_buffers keeps the pool it was allocated from.
CommandBufferManagerNew(num_command_pools, num_command_buffers_per_pool) ==
    [command_buffers |->
         [i \in 1..(num_command_pools * num_command_buffers_per_pool) |->
              (i - 1) \div num_command_buffers_per_pool],
     num_command_buffers_per_pool |-> num_command_buffers_per_pool,
     num_used_command_buffers_per_pool |-> [p \in 1..num_command_pools |-> 0]]

\* CommandBufferManager::reset_command_pools, for pool indices within range.
ResetCommandPools(manager, pool_indices) ==
    [manager EXCEPT !.num_used_command_buffers_per_pool =
         [p \in DOMAIN @ |-> IF (p - 1) \in pool_indices THEN 0 ELSE @[p]]]

\* CommandBufferManager::get_command_buffer_at_pool: the result (Err, a panic of the
\* indexing, or the buffer) and the manager after the call.
GetCommandBufferAtPool(manager, pool_index) ==
    LET num_used_buffers == manager.num_used_command_buffers_per_pool[pool_index + 1]
        counted == [manager EXCEPT
                        !.num_used_command_buffers_per_pool[pool_index + 1] = @ + 1]
        index == (pool_index * manager.num_command_buffers_per_pool) + num_used_buffers
    IN  IF num_used_buffers > manager.num_command_buffers_per_pool
        THEN [result |-> <<"err">>, manager |-> manager]
        ELSE IF index >= Len(manager.command_buffers)
        THEN [result |-> <<"panic">>, manager |-> counted]
        ELSE [result |-> <<"ok", index>>, manager |-> counted]

\* A request at a pool: the manager after the call, the request and what it
\* handed out.
RequestAtPool(pool_index) ==
    LET got == GetCommandBufferAtPool(command_buffer_manager, pool_index)
    IN  /\ command_buffer_manager' = got.manager
        /\ last_request' =
               <<pool_index,
                 command_buffer_manager.num_used_command_buffers_per_pool[pool_index + 1],
                 got.result>>
        /\ handed' = IF got.result[1] = "ok"
                     THEN [handed EXCEPT ![pool_index + 1] = Append(@, got.result[2])]
                     ELSE handed

\* A reset of one pool.
ResetPool(pool_index) ==
    /\ command_buffer_manager' = ResetCommandPools(command_buffer_manager, {pool_index})
    /\ handed' = [handed EXCEPT ![pool_index + 1] = <<>>]
    /\ UNCHANGED last_request

\* Mutant of FrameSemaphoreGraphicsWaitValue: waits for one frame earlier.
FrameSemaphoreGraphicsWaitValueEarlier(counters) == counters.absolute - MAX_FRAMES

\* frame_semaphore_graphics_wait_value
FrameSemaphoreGraphicsWaitValue(counters) == counters.absolute - (MAX_FRAMES - 1)

\* frame_counters_advance
FrameCountersAdvance(counters) ==
    [current |-> (counters.current + 1) % MAX_FRAMES,
     previous |-> counters.current,
     absolute |-> counters.absolute + 1]

\* Device::new: CommandBufferManager::new(shared.clone(), MAX_FRAMES as _, 1)
InitCommandIdle ==
    /\ command_buffer_manager = CommandBufferManagerNew(MAX_FRAMES, DeviceBuffersPerPool)
    /\ handed = [p \in 1..MAX_FRAMES |-> <<>>]
    /\ last_request = <<>>

InitDeviceIdle ==
    /\ frame_counters = [current |-> 0, previous |-> 0, absolute |-> 0]
    /\ semaphore_graphics_frame = 0
    /\ gpu_queue = <<>>
    /\ commands = <<>>
    /\ device_pc = "idle"

InitGpuIdle == InitCommandIdle /\ InitDeviceIdle

InitExtraIdle == InitEvadeIdle /\ InitResolveIdle /\ InitGpuIdle

InitAuxIdle == InitColorIdle /\ InitLoadIdle /\ InitExtraIdle

InitRenderIdle == InitMosvIdle /\ InitRendererIdle /\ InitFrameIdle /\ InitAuxIdle

InitTri ==
    /\ side_a_vertices = <<>>
    /\ side_b_vertices = <<>>
    /\ overflow_checks = TRUE
    /\ plane = <<"none">>
    /\ tri_pc = "idle"

\* State at entry of create_z_position_calculator.
Init ==
    /\ \E nb \in 0..MaxChanges, nm \in 0..MaxChanges, ns \in 0..MaxChanges :
          /\ nb + nm + ns <= MaxChanges
          /\ bpm_changes \in ChangeLists(BpmValues, nb)
          /\ meter_changes \in ChangeLists(TimeSignatures, nm)
          /\ soflans \in ChangeLists(SpeedMultipliers, ns)
    /\ num_measures \in 1..MaxMeasures
    /\ current_bpm_change = 0
    /\ current_time_signature_change = 0
    /\ current_soflan = 0
    /\ \E sub \in HeaderSubdivisions :
          current_measure = MeasureCompositionData(StartingTimeSignature, StartingBpm,
                                                   StartingSpeedMultiplier, sub)
    /\ measure_index = 0
    /\ measure_compositions = <<>>
    /\ music_offset = Zero
    /\ z_base_speed = One
    /\ measures = <<>>
    /\ call = <<>>
    /\ result = <<"none">>
    /\ pc = "fold"
    /\ side_a_vertices = <<>>
    /\ side_b_vertices = <<>>
    /\ overflow_checks \in BOOLEAN
    /\ plane = <<"none">>
    /\ tri_pc = "idle"
    /\ InitRenderIdle

\* One iteration of the loop of create_z_position_calculator. With overflow checks
\* the iteration panics when the pending change of a list is keyed at measure 0.
FoldMeasure ==
    /\ pc = "fold"
    /\ measure_index \in LoopRange(num_measures)
    /\ IF /\ overflow_checks
          /\ \/ PeekOverflows(bpm_changes, current_bpm_change)
             \/ PeekOverflows(meter_changes, current_time_signature_change)
             \/ PeekOverflows(soflans, current_soflan)
       THEN /\ pc' = "panic"
            /\ UNCHANGED <<current_bpm_change, current_time_signature_change,
                           current_soflan, current_measure, measure_compositions,
                           measure_index>>
       ELSE /\ current_bpm_change' =
                   CursorAfter(bpm_changes, current_bpm_change, measure_index)
            /\ current_time_signature_change' =
                   CursorAfter(meter_changes, current_time_signature_change,
                               measure_index)
            /\ current_soflan' = CursorAfter(soflans, current_soflan, measure_index)
            /\ current_measure' = FoldedMeasure(measure_index)
            /\ measure_compositions' =
                   Append(measure_compositions, FoldedMeasure(measure_index))
            /\ measure_index' = measure_index + 1
            /\ UNCHANGED pc
    /\ UNCHANGED <<bpm_changes, meter_changes, soflans, num_measures, music_offset,
                   z_base_speed, measures, call, result, tri_vars, render_vars>>

\* After the loop: ZPositionCalculator::new(measure_compositions, Time(0.0), 1.0)
CreateCalculator ==
    /\ pc = "fold"
    /\ measure_index \notin LoopRange(num_measures)
    /\ music_offset' = Zero
    /\ z_base_speed' = One
    /\ measures' = ZPositionCalculatorNew(measure_compositions, Zero, One)
    /\ pc' = "ready"
    /\ UNCHANGED <<bpm_changes, meter_changes, soflans, num_measures,
                   current_bpm_change, current_time_signature_change, current_soflan,
                   current_measure, measure_index, measure_compositions, call, result,
                   tri_vars, render_vars>>

\* A z_position call of the chart creator on the built calculator.
ZPositionCall ==
    /\ pc = "ready"
    /\ \E m \in 0..Len(measures), tick \in {1, current_measure.subdivision + 1} :
          /\ call' = <<m, tick>>
          /\ result' = ZPositionOfTimingPoint(measures, TimingPoint(m, tick))
    /\ UNCHANGED <<bpm_changes, meter_changes, soflans, num_measures,
                   current_bpm_change, current_time_signature_change, current_soflan,
                   current_measure, measure_index, measure_compositions, music_offset,
                   z_base_speed, measures, pc, tri_vars, render_vars>>

Next == FoldMeasure \/ CreateCalculator \/ ZPositionCall

Spec == Init /\ [][Next]_vars

----------------------------------------------------------------------------
(* ZPositionCalculator::new and z_position_at on their own: the            *)
(* compositions, the music offset and the base speed are drawn from the    *)
(* bounded sets.                                                           *)

Compositions ==
    {MeasureCompositionData(ts, bpm, StartingSpeedMultiplier, sub) :
        ts \in TimeSignatures, bpm \in BpmValues, sub \in Subdivisions}

CompositionLists ==
    UNION {[1..n -> Compositions] : n \in 1..MaxMeasures}

\* subdivision_index values of the calls: the first tick and the tick one past each
\* grid (1-based; the latter is inside a measure of a finer grid)
Ticks == {1} \cup {sub + 1 : sub \in Subdivisions}

InitNew ==
    /\ bpm_changes = <<>>
    /\ meter_changes = <<>>
    /\ soflans = <<>>
    /\ measure_compositions \in CompositionLists
    /\ num_measures = Len(measure_compositions)
    /\ current_bpm_change = 0
    /\ current_time_signature_change = 0
    /\ current_soflan = 0
    /\ current_measure = measure_compositions[Len(measure_compositions)]
    /\ measure_index = num_measures
    /\ music_offset \in MusicOffsets
    /\ z_base_speed \in ZBaseSpeeds
    /\ measures = <<>>
    /\ call = <<>>
    /\ result = <<"none">>
    /\ pc = "new"
    /\ InitTri
    /\ InitRenderIdle

\* ZPositionCalculator::new(measure_compositions, music_offset, z_base_speed)
NewCalculator ==
    /\ pc = "new"
    /\ measures' = ZPositionCalculatorNew(measure_compositions, music_offset, z_base_speed)
    /\ pc' = "ready"
    /\ UNCHANGED <<bpm_changes, meter_changes, soflans, num_measures,
                   current_bpm_change, current_time_signature_change, current_soflan,
                   current_measure, measure_index, measure_compositions, music_offset,
                   z_base_speed, call, result, tri_vars, render_vars>>

\* calculator.z_position_at(measure, subdivision_index)
ZPositionAtCall ==
    /\ pc = "ready"
    /\ \E m \in 0..Len(measures), tick \in Ticks :
          /\ call' = <<m, tick>>
          /\ result' = ZPositionAt(measures, m, tick)
    /\ UNCHANGED <<bpm_changes, meter_changes, soflans, num_measures,
                   current_bpm_change, current_time_signature_change, current_soflan,
                   current_measure, measure_index, measure_compositions, music_offset,
                   z_base_speed, measures, pc, tri_vars, render_vars>>

NextNew == NewCalculator \/ ZPositionAtCall

SpecNew == InitNew /\ [][NextNew]_vars

----------------------------------------------------------------------------
(* Repeated z_position_at calls on one calculator, as create_track_position *)
(* makes them for every point of a chart. One earlier call is kept, with    *)
(* its answer, to compare a later call with.                                *)

ResolveCompositions ==
    {MeasureCompositionData([num_beats |-> 4, note_value |-> 4], 120,
                            StartingSpeedMultiplier, 4),
     MeasureCompositionData([num_beats |-> 6, note_value |-> 8], 240,
                            StartingSpeedMultiplier, 2)}

InitResolve ==
    /\ InitNew
    /\ \A i \in 1..Len(measure_compositions) :
          measure_compositions[i] \in ResolveCompositions

\* self.z_position_calculator.z_position_at(measure, subdivision_index), made by
\* a caller that may keep the answer.
ResolveCall ==
    /\ pc = "ready"
    /\ \E m \in 0..Len(measures), tick \in Ticks :
          /\ call' = <<m, tick>>
          /\ result' = ZPositionAt(measures, m, tick)
          /\ \/ remembered' = <<m, tick, result'>>
             \/ remembered' = remembered
    /\ UNCHANGED <<bpm_changes, meter_changes, soflans, num_measures,
                   current_bpm_change, current_time_signature_change, current_soflan,
                   current_measure, measure_index, measure_compositions, music_offset,
                   z_base_speed, measures, pc, tri_vars, mosv_vars, renderer_vars,
                   frame_vars, color_vars, load_vars, evade_vars, gpu_vars>>

NextResolve == NewCalculator \/ ResolveCall

SpecResolve == InitResolve /\ [][NextResolve]_vars

----------------------------------------------------------------------------
(* Properties of the timeline and of the position calculator.              *)

ResultOk == result[1] = "ok"
ResultTime == result[2]
ResultZ == result[3]

\* 0-based accessors of the built timeline
TimeOffset(m) == measures[m + 1].position.offset.time
TimeDuration(m) == measures[m + 1].position.duration.time
DepthOffset(m) == measures[m + 1].position.offset.z
DepthDuration(m) == measures[m + 1].position.duration.z
SubdivisionOf(m) == measures[m + 1].composition.subdivision

CommonTime120 == MeasureCompositionData([num_beats |-> 4, note_value |-> 4], 120,
                                        StartingSpeedMultiplier, 4)

TwoMeasureScenario ==
    /\ pc = "ready"
    /\ measure_compositions = <<CommonTime120, CommonTime120>>
    /\ music_offset = Zero

\* C1: on the 2-measure timeline of 4/4 at 120 BPM, subdivision 4, audio offset 0,
\* z_position_at(0, 1).time = 0, z_position_at(0, 5).time = 2 and
\* z_position_at(1, 1).time = 2.
C1_EndToEndTiming ==
    TwoMeasureScenario =>
        /\ call = <<0, 1>> => ResultOk /\ ResultTime = F(0)
        /\ call = <<0, 5>> => ResultOk /\ ResultTime = F(2)
        /\ call = <<1, 1>> => ResultOk /\ ResultTime = F(2)

C1_Witness ==
    /\ TwoMeasureScenario
    /\ call = <<0, 5>>
    /\ result = <<"ok", F(2), FMul(F(2), z_base_speed)>>

\* C2: for every measure m, z_position_at(m, 1).time is the time offset of m and
\* z_position_at(m, subdivision + 1).time is that offset plus the time duration of
\* m, which is the time offset of measure m + 1 when there is one.
C2_SubdivisionBoundary ==
    (pc = "ready" /\ call # <<>> /\ call[1] < Len(measures)) =>
        LET m == call[1] IN
        /\ call[2] = 1 => ResultOk /\ ResultTime = TimeOffset(m)
        /\ call[2] = SubdivisionOf(m) + 1 =>
              /\ ResultOk
              /\ ResultTime = FAdd(TimeOffset(m), TimeDuration(m))
              /\ m + 1 < Len(measures) => ResultTime = TimeOffset(m + 1)

C2_Witness ==
    /\ pc = "ready"
    /\ Len(call) = 2
    /\ call[1] + 1 < Len(measures)
    /\ call[2] = SubdivisionOf(call[1]) + 1
    /\ ResultOk
    /\ ResultTime = TimeOffset(call[1] + 1)
    /\ TimeOffset(call[1] + 1) # TimeOffset(call[1])

AllPositive ==
    \A k \in 1..Len(measure_compositions) :
        /\ measure_compositions[k].bpm > 0
        /\ measure_compositions[k].time_signature.num_beats > 0
        /\ measure_compositions[k].time_signature.note_value > 0

\* C5: with positive tempo and time-signature values the time offsets and the depth
\* offsets of consecutive measures never decrease.
C5_MonotonicOffsets ==
    (pc = "ready" /\ AllPositive) =>
        \A i \in 0..(Len(measures) - 2) :
            /\ FLe(TimeOffset(i), TimeOffset(i + 1))
            /\ FLe(DepthOffset(i), DepthOffset(i + 1))

C5_Witness ==
    /\ pc = "ready"
    /\ AllPositive
    /\ Len(measures) >= 3
    /\ TimeOffset(1) # TimeOffset(0)
    /\ DepthOffset(2) # DepthOffset(1)

\* The duration of a measure from its own time signature and tempo:
\* num_beats * 60 * 4 / (bpm * note_value) seconds.
MeasureSeconds(c) ==
    Norm(c.time_signature.num_beats * 240, c.bpm * c.time_signature.note_value)

\* C6: measure 0 starts at the audio offset (depth: audio offset times the base depth
\* speed) and measure i + 1 starts where measure i ends, the duration of measure i
\* being computed from the time signature and tempo of measure i.
C6_RunningOffsetRecurrence ==
    pc = "ready" =>
        /\ Len(measures) = Len(measure_compositions)
        /\ TimeOffset(0) = music_offset
        /\ DepthOffset(0) = FMul(music_offset, z_base_speed)
        /\ \A i \in 0..(Len(measures) - 1) :
              /\ TimeDuration(i) = MeasureSeconds(measure_compositions[i + 1])
              /\ DepthDuration(i) =
                    FMul(MeasureSeconds(measure_compositions[i + 1]), z_base_speed)
        /\ \A i \in 0..(Len(measures) - 2) :
              /\ TimeOffset(i + 1) = FAdd(TimeOffset(i), TimeDuration(i))
              /\ DepthOffset(i + 1) = FAdd(DepthOffset(i), DepthDuration(i))

C6_Witness ==
    /\ pc = "ready"
    /\ Len(measures) >= 2
    /\ music_offset # Zero
    /\ z_base_speed # One
    /\ TimeOffset(0) = music_offset
    /\ measure_compositions[1] # measure_compositions[2]
    /\ TimeOffset(1) = FAdd(music_offset, MeasureSeconds(measure_compositions[1]))

\* C8: z_position_at with a measure index at or past the number of measures aborts;
\* no position is returned.
C8_OutOfRangeAborts ==
    (pc = "ready" /\ call # <<>> /\ call[1] >= Len(measures)) => result = <<"panic">>

C8_Witness ==
    /\ pc = "ready"
    /\ Len(call) = 2
    /\ call[1] = Len(measures)
    /\ result = <<"panic">>

----------------------------------------------------------------------------
(* Properties of the fold of the change lists.                             *)

\* The three lists with their cursors and the field each one overwrites.
Kinds == {"bpm", "meter", "soflan"}
ListOf(kind) ==
    CASE kind = "bpm" -> bpm_changes
      [] kind = "meter" -> meter_changes
      [] kind = "soflan" -> soflans
CursorOf(kind) ==
    CASE kind = "bpm" -> current_bpm_change
      [] kind = "meter" -> current_time_signature_change
      [] kind = "soflan" -> current_soflan
CursorOfNext(kind) ==
    CASE kind = "bpm" -> current_bpm_change'
      [] kind = "meter" -> current_time_signature_change'
      [] kind = "soflan" -> current_soflan'
FieldOf(kind, c) ==
    CASE kind = "bpm" -> c.bpm
      [] kind = "meter" -> c.time_signature
      [] kind = "soflan" -> c.speed_multiplier

\* No earlier change of the list can still be pending when change j comes due:
\* the trigger measures up to j strictly increase.
NoEarlierPending(changes, j) ==
    \A i \in 1..(j - 1) : changes[i].measure < changes[i + 1].measure

\* C3: a change keyed at measure m, with no earlier change of its kind pending, is
\* applied at the step of measure index m, the index z_position uses for a timing
\* point of measure m, so it shows in composition m and in none below.
C3_ChangeTakesEffectAtItsMeasure ==
    [][\A kind \in Kinds :
          (/\ CursorOfNext(kind) = CursorOf(kind) + 1
           /\ NoEarlierPending(ListOf(kind), CursorOf(kind) + 1))
          => measure_index =
                NoteMeasureIndex(TimingPoint(ListOf(kind)[CursorOf(kind) + 1].measure, 1))
      ]_vars

\* C4: per measure step each list consumes at most one change, the nearest
\* unconsumed one; of two pending changes of a kind that are both due, the earlier
\* is the one written into this measure and the later stays pending for the next
\* step, where it is applied because it is still due.
\* (A change is due from the index before its trigger measure on, which includes
\* every index at or after the trigger measure.)
C4_OneChangePerListPerMeasure ==
    [][\A kind \in Kinds :
          LET changes == ListOf(kind)
              c == CursorOf(kind)
              due(j) == j <= Len(changes) /\ changes[j].measure <= measure_index + 1
          IN  /\ CursorOfNext(kind) \in {c, c + 1}
              /\ (pc = "fold" /\ measure_index < num_measures /\ due(c + 1)) =>
                    /\ CursorOfNext(kind) = c + 1
                    /\ FieldOf(kind, current_measure') = changes[c + 1].value
                    /\ FieldOf(kind, measure_compositions'[measure_index + 1])
                          = changes[c + 1].value
              /\ (pc = "fold" /\ measure_index < num_measures /\ ~due(c + 1)) =>
                    /\ CursorOfNext(kind) = c
                    /\ FieldOf(kind, current_measure') = FieldOf(kind, current_measure)
      ]_vars

\* C7: construction for a measure count N yields exactly N compositions and N
\* measure positions, whatever the change lists hold.
C7_ExactlyNMeasures ==
    /\ pc # "panic"
    /\ (pc = "fold" /\ measure_index \notin 0..(num_measures - 1)) =>
          Len(measure_compositions) = num_measures
    /\ pc = "ready" =>
          /\ Len(measure_compositions) = num_measures
          /\ Len(measures) = num_measures

----------------------------------------------------------------------------
(* eclale_graphics/src/geometry/plane.rs                                   *)

U16Modulus == 65536

\* `n as u16`
U16(n) == n % U16Modulus

\* The state of the vertex construction: how many elements each iterator has
\* yielded, the vertices pushed so far, and the 0-based positions of the last side-a
\* and side-b vertex pushed by the lock-step loop.
StripState(ai, bi, vs, la, lb) ==
    [a_taken |-> ai, b_taken |-> bi, vertices |-> vs,
     last_a_index |-> la, last_b_index |-> lb]

\* Mutant of ZipLoop: side b is not read, each side-a vertex is pushed alone.
RECURSIVE ZipLoopSideAOnly(_, _, _)
ZipLoopSideAOnly(a, b, st) ==
    IF st.a_taken >= Len(a) THEN st
    ELSE ZipLoopSideAOnly(a, b,
            StripState(st.a_taken + 1, st.b_taken,
                       Append(st.vertices, a[st.a_taken + 1]),
                       Len(st.vertices), st.last_b_index))

\* for (a, b) in a_iter.by_ref().zip(b_iter.by_ref()) { push a; push b }
\* Zip::next takes from a_iter first and from b_iter second: when a_iter is at its
\* end b_iter is not touched; when a_iter yields an element and b_iter is at its
\* end, the loop ends and the element taken from a_iter is gone.
RECURSIVE ZipLoop(_, _, _)
ZipLoop(a, b, st) ==
    IF st.a_taken >= Len(a) THEN st
    ELSE IF st.b_taken >= Len(b)
         THEN StripState(st.a_taken + 1, st.b_taken, st.vertices,
                         st.last_a_index, st.last_b_index)
         ELSE ZipLoop(a, b,
                 StripState(st.a_taken + 1, st.b_taken + 1,
                            st.vertices \o <<a[st.a_taken + 1], b[st.b_taken + 1]>>,
                            Len(st.vertices), Len(st.vertices) + 1))

\* for a in a_iter { push a; push vertices[last_b_index] }
RECURSIVE TailA(_, _)
TailA(a, st) ==
    IF st.a_taken >= Len(a) THEN st
    ELSE TailA(a,
            StripState(st.a_taken + 1, st.b_taken,
                       st.vertices \o <<a[st.a_taken + 1],
                                        st.vertices[st.last_b_index + 1]>>,
                       st.last_a_index, st.last_b_index))

\* for b in b_iter { push vertices[last_a_index]; push b }
RECURSIVE TailB(_, _)
TailB(b, st) ==
    IF st.b_taken >= Len(b) THEN st
    ELSE TailB(b,
            StripState(st.a_taken, st.b_taken + 1,
                       st.vertices \o <<st.vertices[st.last_a_index + 1],
                                        b[st.b_taken + 1]>>,
                       st.last_a_index, st.last_b_index))

\* The vertex buffer of the strip.
StripVertices(a, b) ==
    TailB(b, TailA(a, ZipLoop(a, b, StripState(0, 0, <<>>, 0, 0)))).vertices

\* Mutant of QuadIndices: the two triangles of a quad share one index fewer.
QuadIndicesShort(i) == <<i, i + 1, i + 2, i + 1, i + 2>>

\* The six indices pushed for one step of the index loop.
QuadIndices(i) == <<i, i + 1, i + 2, i + 1, i + 2, i + 3>>

\* for i in (0..bound).step_by(2) { push the quad of i }, from i on
RECURSIVE IndexLoop(_, _)
IndexLoop(i, bound) ==
    IF i >= bound THEN <<>>
    ELSE QuadIndices(i) \o IndexLoop(i + 2, bound)

\* Mutant of TriangulateFromTwoSides: the side-count assertions accept one point.
TriangulateFromTwoSidesOnePoint(a, b, checks) ==
    IF U16(Len(a)) < 1 \/ U16(Len(b)) < 1
    THEN <<"panic">>
    ELSE LET vertices == StripVertices(a, b)
             len16 == U16(Len(vertices))
         IN  IF Len(vertices) < 4 \/ Len(vertices) % 2 # 0
             THEN <<"panic">>
             ELSE IF len16 < 2 /\ checks
             THEN <<"panic">>
             ELSE <<"ok", vertices, IndexLoop(0, U16(len16 - 2 + U16Modulus))>>

\* Plane::triangulate_from_two_sides
TriangulateFromTwoSides(a, b, checks) ==
    IF U16(Len(a)) < 2 \/ U16(Len(b)) < 2
    THEN <<"panic">>                        \* assert!(side_x_count >= 2)
    ELSE LET vertices == StripVertices(a, b)
             len16 == U16(Len(vertices))
         IN  IF Len(vertices) < 4 \/ Len(vertices) % 2 # 0
             THEN <<"panic">>               \* assert!(vertices.len() >= 4), % 2 == 0
             ELSE IF len16 < 2 /\ checks
             THEN <<"panic">>               \* `vertices.len() as u16 - 2` overflows
             ELSE <<"ok", vertices, IndexLoop(0, U16(len16 - 2 + U16Modulus))>>

\* Input sides: any point sequence up to the length bound, sides of fewer than two
\* points included.
Sides == UNION {[1..n -> PointValues] : n \in 0..MaxSideLen}

InitTriangulate ==
    /\ side_a_vertices \in Sides
    /\ side_b_vertices \in Sides
    /\ overflow_checks \in BOOLEAN
    /\ plane = <<"none">>
    /\ tri_pc = "idle"
    /\ bpm_changes = <<>>
    /\ meter_changes = <<>>
    /\ soflans = <<>>
    /\ num_measures = 1
    /\ current_bpm_change = 0
    /\ current_time_signature_change = 0
    /\ current_soflan = 0
    /\ current_measure = MeasureCompositionData(StartingTimeSignature, StartingBpm,
                                                StartingSpeedMultiplier, 4)
    /\ measure_index = 0
    /\ measure_compositions = <<>>
    /\ music_offset = Zero
    /\ z_base_speed = One
    /\ measures = <<>>
    /\ call = <<>>
    /\ result = <<"none">>
    /\ pc = "idle"
    /\ InitRenderIdle

\* Plane::triangulate_from_two_sides(side_a_vertices, side_b_vertices)
Triangulate ==
    /\ tri_pc = "idle"
    /\ plane' = TriangulateFromTwoSides(side_a_vertices, side_b_vertices, overflow_checks)
    /\ tri_pc' = "done"
    /\ UNCHANGED <<side_a_vertices, side_b_vertices, overflow_checks, timeline_vars,
                   render_vars>>

NextTriangulate == Triangulate

SpecTriangulate == InitTriangulate /\ [][NextTriangulate]_vars

----------------------------------------------------------------------------
(* Properties of the strip triangulation.                                  *)

PlaneOk == plane[1] = "ok"
PlaneVertices == plane[2]
PlaneIndices == plane[3]

\* C9: two sides of equal length L >= 2 give exactly 2L vertices and 6 * (L - 1)
\* indices.
C9_EqualSidesParity ==
    (tri_pc = "done" /\ Len(side_a_vertices) = Len(side_b_vertices)
        /\ Len(side_a_vertices) >= 2) =>
        /\ PlaneOk
        /\ Len(PlaneVertices) = 2 * Len(side_a_vertices)
        /\ Len(PlaneIndices) = 6 * (Len(side_a_vertices) - 1)

C9_Witness ==
    /\ tri_pc = "done"
    /\ Len(side_a_vertices) = 3
    /\ Len(side_b_vertices) = 3
    /\ PlaneOk
    /\ Len(PlaneVertices) = 6
    /\ Len(PlaneIndices) = 12

\* C10: for two sides of length >= 2, equal or not, the vertex count is even and at
\* least 4, and the index buffer is the group (i, i+1, i+2, i+1, i+2, i+3) for each
\* even i from 0 to vertex_count - 4 in order: 6 * (vertex_count / 2 - 1) indices,
\* each below vertex_count.
C10_StripIndexStructure ==
    (tri_pc = "done" /\ Len(side_a_vertices) >= 2 /\ Len(side_b_vertices) >= 2) =>
        /\ PlaneOk
        /\ LET n == Len(PlaneVertices)
               groups == (n \div 2) - 1
           IN  /\ n >= 4
               /\ n % 2 = 0
               /\ Len(PlaneIndices) = 6 * groups
               /\ \A g \in 0..(groups - 1) :
                     /\ PlaneIndices[6 * g + 1] = 2 * g
                     /\ PlaneIndices[6 * g + 2] = 2 * g + 1
                     /\ PlaneIndices[6 * g + 3] = 2 * g + 2
                     /\ PlaneIndices[6 * g + 4] = 2 * g + 1
                     /\ PlaneIndices[6 * g + 5] = 2 * g + 2
                     /\ PlaneIndices[6 * g + 6] = 2 * g + 3
               /\ \A k \in 1..Len(PlaneIndices) : PlaneIndices[k] < n

\* Sides of unequal length, either one the longer, were triangulated.
C10_Witness ==
    /\ tri_pc = "done"
    /\ Len(side_a_vertices) = 2
    /\ Len(side_b_vertices) = 4
    /\ PlaneOk
    /\ Len(PlaneVertices) = 8
    /\ Len(PlaneIndices) = 18

\* C11: when either side has fewer than two points the triangulation stops on an
\* assertion failure and no mesh is produced.
C11_ShortSideAsserts ==
    (tri_pc = "done" /\ (Len(side_a_vertices) < 2 \/ Len(side_b_vertices) < 2)) =>
        plane = <<"panic">>

\* A one-point side against a three-point side was rejected.
C11_Witness ==
    /\ tri_pc = "done"
    /\ Len(side_a_vertices) = 1
    /\ Len(side_b_vertices) = 3
    /\ plane = <<"panic">>

----------------------------------------------------------------------------
(* eclale/src/renderer/track_description.rs: the merged meshes of the hold *)
(* notes and of the lanes (one draw unit each, many objects per unit).     *)
(*                                                                         *)
(* The accumulator of the fold is kept in run form: vertices by their      *)
(* count (vertex positions play no part below), objects_indices as one run *)
(* [value, count] per `extend(repeat(value).take(count))`, indices as one  *)
(* chunk [offset, count] per merged mesh, whose j-th element is the j-th   *)
(* index of the strip mesh plus the offset, in u16 arithmetic.             *)

MaxObjects == 3         \* most hold notes / lanes in one chart
BigPoints == 16383      \* points of a long hold note / lane (32766 vertices)

PointCounts == {2, 3, BigPoints}
ObjectTypes == {2, 4}   \* HitNoteType / LaneType codes; LaneType(4) is the enemy lane

Half == <<1, 2>>
Color(r, g, b, a) == <<r, g, b, a>>
DefaultColor == Color(One, One, One, One)

\* get_base_color_hit
GetBaseColorHit(hit_type) ==
    CASE hit_type \in {0, 10} -> Color(One, Zero, One, One)
      [] hit_type \in {1, 11} -> Color(Half, Zero, Half, One)
      [] hit_type \in {2, 12} -> Color(One, Zero, Zero, One)
      [] hit_type \in {3, 13} -> Color(Zero, One, Zero, One)
      [] hit_type \in {4, 14} -> Color(Zero, Zero, One, One)
      [] OTHER -> DefaultColor

\* Mutant of GetBaseColorLane: the wildcard arm gives black.
GetBaseColorLaneBlack(lane_type) ==
    CASE lane_type \in {1, 12} -> Color(One, Zero, Zero, One)
      [] lane_type \in {2, 13} -> Color(Zero, One, Zero, One)
      [] lane_type \in {3, 14} -> Color(Zero, Zero, One, One)
      [] OTHER -> Color(Zero, Zero, Zero, One)

\* get_base_color_lane
GetBaseColorLane(lane_type) ==
    CASE lane_type \in {1, 12} -> Color(One, Zero, Zero, One)
      [] lane_type \in {2, 13} -> Color(Zero, One, Zero, One)
      [] lane_type \in {3, 14} -> Color(Zero, Zero, One, One)
      [] OTHER -> DefaultColor

\* PlatformInstance { base_color, z_start_position: 0.0, z_end_position: 0.0 }
PlatformInstance(base_color) ==
    [base_color |-> base_color, z_start_position |-> Zero, z_end_position |-> Zero]

\* create_plane_mesh_from_points: both sides are derived from the same `points`
\* points, so the zip loop of the triangulation consumes them all: 2 * points
\* vertices, and the index loop runs over (0..vertices.len() as u16 - 2).step_by(2).
CreatePlaneMeshFromPoints(points, checks) ==
    IF U16(points) < 2
    THEN <<"panic">>                        \* assert!(side_x_count >= 2)
    ELSE LET vertex_count == 2 * points
             len16 == U16(vertex_count)
             bound == U16(len16 - 2 + U16Modulus)
         IN  IF len16 < 2 /\ checks
             THEN <<"panic">>               \* `vertices.len() as u16 - 2` overflows
             ELSE <<"ok", vertex_count, 6 * ((bound + 1) \div 2)>>

\* The j-th index (j = 1, 2, ...) of a strip mesh: element ((j - 1) mod 6) of the
\* group (i, i+1, i+2, i+1, i+2, i+3) of i = 2 * ((j - 1) div 6).
PlaneMeshIndex(j) ==
    2 * ((j - 1) \div 6) + <<0, 1, 2, 1, 2, 3>>[((j - 1) % 6) + 1]

\* Whether `index + current_index_offset` exceeds u16 for some index of the mesh;
\* the last index of a strip mesh is its largest.
IndexAddOverflows(index_count, current_index_offset) ==
    /\ index_count > 0
    /\ PlaneMeshIndex(index_count) + current_index_offset >= U16Modulus

\* The element of `indices` pushed for the j-th index of a merged mesh.
MergedIndex(chunk, j) == U16(PlaneMeshIndex(j) + chunk.offset)

\* `if *lane_type != LaneType(4)`: enemy lanes are left out of the lanes unit.
Skipped(kind, ty) == kind = "lanes" /\ ty = 4

\* Mutant of ObjectsAfterSkip: a skipped lane still pushes its object.
ObjectsAfterSkipPushed(objects, ty) ==
    Append(objects, PlatformInstance(GetBaseColorLane(ty)))

\* `objects` after a lane that is skipped: nothing is pushed.
ObjectsAfterSkip(objects, ty) == objects

\* base_color of the object of a note / lane
BaseColor(kind, ty) ==
    IF kind = "lanes" THEN GetBaseColorLane(ty) ELSE GetBaseColorHit(ty)

\* Lanes come out of a HashMap<LaneType, Vec<Lane>>: the lanes of one type are
\* adjacent, the order of the types is arbitrary.
GroupedByType(s) ==
    \A i, j, k \in 1..Len(s) :
        (i < j /\ j < k /\ s[i].ty = s[k].ty) => s[j].ty = s[i].ty

MosvObjects == [points : PointCounts, ty : ObjectTypes]
MosvInputs == UNION {[1..n -> MosvObjects] : n \in 0..MaxObjects}

InitTimelineIdle ==
    /\ bpm_changes = <<>>
    /\ meter_changes = <<>>
    /\ soflans = <<>>
    /\ num_measures = 1
    /\ current_bpm_change = 0
    /\ current_time_signature_change = 0
    /\ current_soflan = 0
    /\ current_measure = MeasureCompositionData(StartingTimeSignature, StartingBpm,
                                                StartingSpeedMultiplier, 4)
    /\ measure_index = 0
    /\ measure_compositions = <<>>
    /\ music_offset = Zero
    /\ z_base_speed = One
    /\ measures = <<>>
    /\ call = <<>>
    /\ result = <<"none">>
    /\ pc = "idle"

\* State at entry of create_hold_notes / create_lanes: the empty accumulator.
InitMosv ==
    /\ mosv_kind \in {"hold_notes", "lanes"}
    /\ mosv_input \in MosvInputs
    /\ mosv_kind = "lanes" => GroupedByType(mosv_input)
    /\ mosv_cursor = 0
    /\ mosv_vertices_len = 0
    /\ mosv_indices = <<>>
    /\ mosv_objects = <<>>
    /\ mosv_objects_indices = <<>>
    /\ mosv_pc = "fold"
    /\ side_a_vertices = <<>>
    /\ side_b_vertices = <<>>
    /\ overflow_checks \in BOOLEAN
    /\ plane = <<"none">>
    /\ tri_pc = "idle"
    /\ InitTimelineIdle
    /\ InitRendererIdle
    /\ InitFrameIdle
    /\ InitAuxIdle

\* One iteration of the fold closure for a lane of the enemy type.
SkipLane ==
    /\ mosv_pc = "fold"
    /\ mosv_cursor < Len(mosv_input)
    /\ Skipped(mosv_kind, mosv_input[mosv_cursor + 1].ty)
    /\ mosv_objects' = ObjectsAfterSkip(mosv_objects, mosv_input[mosv_cursor + 1].ty)
    /\ mosv_cursor' = mosv_cursor + 1
    /\ UNCHANGED <<mosv_kind, mosv_input, mosv_vertices_len, mosv_indices,
                   mosv_objects_indices, mosv_pc, timeline_vars, tri_vars,
                   renderer_vars, frame_vars, aux_vars>>

\* One iteration of the fold closure for a hold note or a lane that is merged.
MergeObject ==
    /\ mosv_pc = "fold"
    /\ mosv_cursor < Len(mosv_input)
    /\ ~Skipped(mosv_kind, mosv_input[mosv_cursor + 1].ty)
    /\ LET note == mosv_input[mosv_cursor + 1]
           mesh == CreatePlaneMeshFromPoints(note.points, overflow_checks)
           current_object_index == Len(mosv_objects)
           current_index_offset == U16(mosv_vertices_len)
       IN  IF mesh[1] = "panic"
                \/ (overflow_checks /\ IndexAddOverflows(mesh[3], current_index_offset))
           THEN /\ mosv_pc' = "panic"
                /\ UNCHANGED <<mosv_cursor, mosv_vertices_len, mosv_indices,
                               mosv_objects, mosv_objects_indices>>
           ELSE /\ mosv_objects_indices' =
                      Append(mosv_objects_indices,
                             [value |-> current_object_index, count |-> mesh[2]])
                /\ mosv_vertices_len' = mosv_vertices_len + mesh[2]
                /\ mosv_indices' =
                      Append(mosv_indices,
                             [offset |-> current_index_offset, count |-> mesh[3]])
                /\ mosv_objects' =
                      Append(mosv_objects,
                             PlatformInstance(BaseColor(mosv_kind, note.ty)))
                /\ mosv_cursor' = mosv_cursor + 1
                /\ UNCHANGED mosv_pc
    /\ UNCHANGED <<mosv_kind, mosv_input, timeline_vars, tri_vars,
                   renderer_vars, frame_vars, aux_vars>>

\* objects_indices.len()
RECURSIVE RunsLen(_)
RunsLen(runs) ==
    IF runs = <<>> THEN 0
    ELSE runs[Len(runs)].count + RunsLen(SubSeq(runs, 1, Len(runs) - 1))

\* Mutant of FinishMosv: the last object index is compared only when there is one.
FinishMosvEmptyAllowed ==
    /\ mosv_pc = "fold"
    /\ mosv_cursor = Len(mosv_input)
    /\ mosv_pc' =
          IF /\ mosv_vertices_len = RunsLen(mosv_objects_indices)
             /\ RunsLen(mosv_objects_indices) > 0 =>
                    mosv_objects_indices[Len(mosv_objects_indices)].value
                        = Len(mosv_objects) - 1
          THEN "done" ELSE "panic"
    /\ UNCHANGED <<mosv_kind, mosv_input, mosv_cursor, mosv_vertices_len, mosv_indices,
                   mosv_objects, mosv_objects_indices, timeline_vars, tri_vars,
                   renderer_vars, frame_vars, aux_vars>>

\* After the fold: the two assert_eq! of create_hold_notes / create_lanes.
\* `objects_indices.last().unwrap()` panics on an empty array.
FinishMosv ==
    /\ mosv_pc = "fold"
    /\ mosv_cursor = Len(mosv_input)
    /\ mosv_pc' =
          IF /\ mosv_vertices_len = RunsLen(mosv_objects_indices)
             /\ RunsLen(mosv_objects_indices) > 0
             /\ mosv_objects_indices[Len(mosv_objects_indices)].value
                    = Len(mosv_objects) - 1
          THEN "done" ELSE "panic"
    /\ UNCHANGED <<mosv_kind, mosv_input, mosv_cursor, mosv_vertices_len, mosv_indices,
                   mosv_objects, mosv_objects_indices, timeline_vars, tri_vars,
                   renderer_vars, frame_vars, aux_vars>>

NextMosv == SkipLane \/ MergeObject \/ FinishMosv

SpecMosv == InitMosv /\ [][NextMosv]_vars

----------------------------------------------------------------------------
(* eclale_graphics/src/renderer/mod.rs: Renderer::new, Renderer::render,   *)
(* Renderer::update_instanced_renderer_instance_gpu_data, and the buffer   *)
(* write of eclale_graphics/src/vulkan/resource.rs.                        *)
(* Buffer contents are sequences of storage units; a buffer has the size   *)
(* it was created with.                                                    *)

MaxUnits == 3           \* most instanced draw units of a render description
MaxMosvUnits == 2       \* most MOSV draw units of a render description

PipelineIndices == {0, 1}
PipelineCounts == {1, 2}
InstanceDataValues == {<<"a", "a">>}
UpdateDataValues == {<<"b">>, <<"b", "b">>, <<"b", "b", "b">>}

\* InstancedDrawData { instance_data, pipeline_index, .. }
InstancedDrawData(instance_data, pipeline_index) ==
    [instance_data |-> instance_data, pipeline_index |-> pipeline_index]

\* MOSVDrawData { pipeline_index, .. }
MOSVDrawData(pipeline_index) == [pipeline_index |-> pipeline_index]

\* A buffer of `size` units with its contents; `overrun` records a write past its
\* end.
Buffer(size, data, overrun) == [size |-> size, data |-> data, overrun |-> overrun]

\* Buffer::write_data: copies `data` to the start of the mapped memory; the length
\* of `data` is not compared with the size of the buffer.
WriteData(buffer, data) ==
    Buffer(buffer.size,
           [i \in 1..buffer.size |->
               IF i <= Len(data) THEN data[i] ELSE buffer.data[i]],
           buffer.overrun \/ Len(data) > buffer.size)

\* create_instanced_gpu_resources: storage_buffer_instances is created with
\* size = instance_data.len() and filled with instance_data.
CreateInstanceBuffer(draw_data) ==
    WriteData(Buffer(Len(draw_data.instance_data),
                     [i \in 1..Len(draw_data.instance_data) |-> "uninit"], FALSE),
              draw_data.instance_data)

\* Mutant of UpdateInstanceGpuData: the data is handed to write_data as it comes.
UpdateInstanceGpuDataUnchecked(buffer, data) == <<"ok", WriteData(buffer, data)>>

\* InstancedRenderer::update_instance_gpu_data, whose body the sources do not hold:
\* as the interface describes it, it replaces the instance data of the unit and
\* fails when the length is not the unit's stride times its count.
UpdateInstanceGpuData(buffer, data) ==
    IF Len(data) # buffer.size
    THEN <<"err", buffer>>
    ELSE <<"ok", WriteData(buffer, data)>>

\* self.instanced_renderers[renderer_index].update_instance_gpu_data(data), for a
\* renderer_index within instanced_renderers: the result and the buffers after it.
UpdateRendererInstanceData(buffers, renderer_index, data) ==
    <<UpdateInstanceGpuData(buffers[renderer_index + 1], data)[1],
      [buffers EXCEPT ![renderer_index + 1] = UpdateInstanceGpuData(@, data)[2]]>>

\* for (index, renderer) in instanced_renderers.iter().enumerate() {
\*     renderers_grouped_by_pipeline[renderer.draw_data.pipeline_index].push(index) }
\* from the k-th renderer on (k = 1, 2, ...); indices pushed are 0-based.
RECURSIVE GroupRenderers(_, _, _)
GroupRenderers(draw_data, k, groups) ==
    IF k > Len(draw_data) THEN groups
    ELSE GroupRenderers(draw_data, k + 1,
            [groups EXCEPT ![draw_data[k].pipeline_index + 1] = Append(@, k - 1)])

Command(op, arg) == [op |-> op, arg |-> arg]

\* Mutant of DrawGroup: the group is drawn from its last renderer to its first.
RECURSIVE DrawGroupReversed(_)
DrawGroupReversed(renderers) ==
    IF renderers = <<>> THEN <<>>
    ELSE DrawGroupReversed(Tail(renderers))
         \o <<Command("draw_instanced", Head(renderers))>>

\* for renderer_index in renderers { record_draw_commands(..) }
RECURSIVE DrawGroup(_)
DrawGroup(renderers) ==
    IF renderers = <<>> THEN <<>>
    ELSE <<Command("draw_instanced", Head(renderers))>> \o DrawGroup(Tail(renderers))

\* for (pipeline_index, renderers) in renderers_grouped_by_pipeline.iter().enumerate()
\* { bind pipeline; draw the group }, from the p-th group on (p = 1, 2, ...)
RECURSIVE InstancedCommands(_, _)
InstancedCommands(groups, p) ==
    IF p > Len(groups) THEN <<>>
    ELSE <<Command("bind_pipeline", p - 1)>> \o DrawGroup(groups[p])
         \o InstancedCommands(groups, p + 1)

\* for renderer in &mosv_renderers { bind its pipeline; record_draw_commands(..) },
\* from the k-th renderer on: graphics_pipeline(index) indexes graphics_pipelines,
\* so the bind of a pipeline past its end panics and nothing more is recorded.
RECURSIVE MosvCommands(_, _, _)
MosvCommands(draw_data, k, pipelines_len) ==
    IF k > Len(draw_data) THEN <<>>
    ELSE IF draw_data[k].pipeline_index >= pipelines_len THEN <<>>
    ELSE <<Command("bind_pipeline", draw_data[k].pipeline_index),
           Command("draw_mosv", k - 1)>> \o MosvCommands(draw_data, k + 1, pipelines_len)

\* Whether the loop over mosv_renderers panics.
MosvBindPanics(draw_data, pipelines_len) ==
    \E k \in 1..Len(draw_data) : draw_data[k].pipeline_index >= pipelines_len

\* The contents of the instance buffers
BufferData(buffers) == [i \in 1..Len(buffers) |-> buffers[i].data]

\* Renderer::render after frame_begin: the commands recorded into the frame's
\* command buffer, then queue_submit_commands_graphics (the buffers the submitted
\* draws read) unless the recording panicked. graphics_pipelines has one entry per
\* group of renderers_grouped_by_pipeline.
RenderLog(groups, mosv, buffers) ==
    InstancedCommands(groups, 1) \o MosvCommands(mosv, 1, Len(groups))
        \o IF MosvBindPanics(mosv, Len(groups)) THEN <<>>
           ELSE <<Command("submit", BufferData(buffers))>>

InstancedDescriptions ==
    UNION {[1..n -> {InstancedDrawData(d, p) :
                        d \in InstanceDataValues, p \in PipelineIndices}] :
           n \in 0..MaxUnits}
MosvDescriptions ==
    UNION {[1..n -> {MOSVDrawData(p) : p \in PipelineIndices}] : n \in 0..MaxMosvUnits}

\* State at entry of Renderer::new(render_description).
InitRenderer ==
    /\ instanced_draw_data \in InstancedDescriptions
    /\ mosv_draw_data \in MosvDescriptions
    /\ graphics_pipelines_len \in PipelineCounts
    /\ renderers_grouped_by_pipeline = <<>>
    /\ instance_buffers = <<>>
    /\ frame_log = <<>>
    /\ update_call = <<>>
    /\ update_result = "none"
    /\ render_pc = "new"
    /\ InitFrameIdle
    /\ InitMosvIdle
    /\ InitTri
    /\ InitTimelineIdle
    /\ InitAuxIdle

\* Renderer::new: one instanced renderer (with its instance buffer) per instanced
\* draw unit, grouped by pipeline index; indexing a group past graphics_pipelines
\* panics.
RendererNew ==
    /\ render_pc = "new"
    /\ IF \E k \in 1..Len(instanced_draw_data) :
             instanced_draw_data[k].pipeline_index >= graphics_pipelines_len
       THEN /\ render_pc' = "panic"
            /\ UNCHANGED <<instance_buffers, renderers_grouped_by_pipeline>>
       ELSE /\ instance_buffers' =
                  [k \in 1..Len(instanced_draw_data) |->
                      CreateInstanceBuffer(instanced_draw_data[k])]
            /\ renderers_grouped_by_pipeline' =
                  GroupRenderers(instanced_draw_data, 1,
                                 [p \in 1..graphics_pipelines_len |-> <<>>])
            /\ render_pc' = "ready"
    /\ UNCHANGED <<instanced_draw_data, mosv_draw_data, graphics_pipelines_len,
                   frame_log, update_call, update_result, frame_vars, mosv_vars,
                   tri_vars, timeline_vars, aux_vars>>

\* Renderer::update_instanced_renderer_instance_gpu_data(renderer_index, data);
\* indexing instanced_renderers past its end panics.
UpdateInstancedRendererInstanceGpuData ==
    /\ render_pc = "ready"
    /\ \E renderer_index \in 0..MaxUnits, data \in UpdateDataValues :
          IF renderer_index >= Len(instance_buffers)
          THEN /\ render_pc' = "panic"
               /\ UNCHANGED <<instance_buffers, update_call, update_result>>
          ELSE LET r == UpdateRendererInstanceData(instance_buffers, renderer_index,
                                                   data)
               IN  /\ update_call' = <<renderer_index, data>>
                   /\ update_result' = r[1]
                   /\ instance_buffers' = r[2]
                   /\ UNCHANGED render_pc
    /\ UNCHANGED <<instanced_draw_data, mosv_draw_data, graphics_pipelines_len,
                   renderers_grouped_by_pipeline, frame_log, frame_vars, mosv_vars,
                   tri_vars, timeline_vars, aux_vars>>

\* Renderer::render up to the return of frame_begin, which blocks on the device
\* until the frame's slot is free and a swapchain image is acquired.
RenderBegin ==
    /\ render_pc = "ready"
    /\ render_pc' = "recording"
    /\ UNCHANGED <<instanced_draw_data, mosv_draw_data, graphics_pipelines_len,
                   renderers_grouped_by_pipeline, instance_buffers, frame_log,
                   update_call, update_result, frame_vars, mosv_vars, tri_vars,
                   timeline_vars, aux_vars>>

\* Renderer::render after frame_begin: the frame is recorded and submitted, or the
\* recording panics.
Render ==
    /\ render_pc = "recording"
    /\ frame_log' = RenderLog(renderers_grouped_by_pipeline, mosv_draw_data,
                              instance_buffers)
    /\ render_pc' = IF MosvBindPanics(mosv_draw_data,
                                      Len(renderers_grouped_by_pipeline))
                    THEN "panic" ELSE "ready"
    /\ UNCHANGED <<instanced_draw_data, mosv_draw_data, graphics_pipelines_len,
                   renderers_grouped_by_pipeline, instance_buffers, update_call,
                   update_result, frame_vars, mosv_vars, tri_vars,
                   timeline_vars, aux_vars>>

NextRenderer ==
    \/ RendererNew
    \/ UpdateInstancedRendererInstanceGpuData
    \/ RenderBegin
    \/ Render

SpecRenderer == InitRenderer /\ [][NextRenderer]_vars

----------------------------------------------------------------------------
(* eclale/src/renderer/track_renderer.rs and eclale/src/main.rs: the        *)
(* per-frame update of the evade notes and the redraw handler.             *)
(* Positions are pairs <<x, z>> of exact values; the instance data of an    *)
(* object is its translation, its colour and its runner flag.              *)

MaxEvadeNotes == 2      \* most evade notes of a chart
MaxTime == 4            \* elapsed_time up to which frames are drawn
MaxRedraws == 3         \* most redraws of a run

FrameDeltas == {Zero, Half, <<3, 2>>}      \* dt.as_secs_f32() * chart_speed

FLt(a, b) == ~FLe(b, a)

\* The f32 values that are no numbers of the line: <<0, 0>> is NaN, <<1, 0>> and
\* <<-1, 0>> are the infinities. Every other value has a positive denominator.
NaN == <<0, 0>>
IsFinite(a) == a[2] # 0
Sign(n) == IF n > 0 THEN 1 ELSE IF n < 0 THEN -1 ELSE 0

\* f32 / f32 of finite values with a divisor that is not negative: 0.0 / 0.0 is NaN
\* and x / 0.0 an infinity.
FDivIeee(a, b) == IF b[1] = 0 THEN <<Sign(a[1]), 0>> ELSE FDiv(a, b)

\* f32 * f32: NaN and infinity * 0 give NaN, infinity * x an infinity.
FMulIeee(a, b) ==
    IF IsFinite(a) /\ IsFinite(b) THEN FMul(a, b)
    ELSE <<Sign(a[1]) * Sign(b[1]), 0>>

\* f32 + f32: NaN and the sum of opposite infinities give NaN.
FAddIeee(a, b) ==
    IF IsFinite(a) /\ IsFinite(b) THEN FAdd(a, b)
    ELSE IF ~IsFinite(a) /\ ~IsFinite(b) THEN (IF a = b THEN a ELSE NaN)
    ELSE IF IsFinite(a) THEN b ELSE a

Vector2(x, z) == <<x, z>>
VAdd(a, b) == Vector2(FAddIeee(a[1], b[1]), FAddIeee(a[2], b[2]))
VSub(a, b) == Vector2(FSub(a[1], b[1]), FSub(a[2], b[2]))
VScale(t, a) == Vector2(FMulIeee(t, a[1]), FMulIeee(t, a[2]))

\* Vector4::new(0.6, 0.2, 0.9, 1.0): the f32 nearest to each decimal.
EvadeBaseColor ==
    Color(<<5033165, 8388608>>, <<13421773, 67108864>>, <<7549747, 8388608>>, One)

\* EvadeNoteInstance { start_position, end_position, base_color, trigger_time,
\* duration } as EvadeNoteInstance::from_chart_evade, its only constructor, fills it
\* (track_renderer.rs names the struct EvadeObjectInstance).
EvadeObjectInstance(start_position, end_position, trigger_time, duration) ==
    [start_position |-> start_position, end_position |-> end_position,
     base_color |-> EvadeBaseColor, trigger_time |-> trigger_time,
     duration |-> duration]

\* The evade notes charts are made of, in the order they have in a chart.
EvadeNoteValues ==
    <<EvadeObjectInstance(Vector2(F(2), F(4)), Vector2(F(-2), F(8)), One, F(2)),
      EvadeObjectInstance(Vector2(Zero, Zero), Vector2(F(10), F(10)), F(2), One),
      EvadeObjectInstance(Vector2(One, One), Vector2(One, F(3)), Zero, Half),
      EvadeObjectInstance(Vector2(F(3), F(3)), Vector2(F(3), F(5)), One, Zero)>>

\* Mutant of EvadePositionAt: the movement is not stopped at the end position.
EvadePositionAtUnclamped(note, current_time) ==
    IF FLt(current_time, note.trigger_time)
    THEN note.start_position
    ELSE VAdd(note.start_position,
              VScale(FDivIeee(FSub(current_time, note.trigger_time), note.duration),
                     VSub(note.end_position, note.start_position)))

\* update_evade_notes: current_position of one note
EvadePositionAt(note, current_time) ==
    IF FLt(current_time, note.trigger_time)
    THEN note.start_position
    ELSE IF FLt(FAdd(note.trigger_time, note.duration), current_time)
    THEN note.end_position
    ELSE VAdd(note.start_position,
              VScale(FDivIeee(FSub(current_time, note.trigger_time), note.duration),
                     VSub(note.end_position, note.start_position)))

\* Matrix4::new_translation(&Vector3::new(position.x, 0.0, position.y))
NewTranslation(position) == <<position[1], Zero, position[2]>>

\* ObjectInstanceGpuData::from_evade_object_instance
FromEvadeObjectInstance(instance) ==
    [transform |-> NewTranslation(instance.start_position),
     base_color |-> instance.base_color,
     apply_runner_transform |-> 1]

\* ObjectInstanceGpuData::from_evade_object_instances
FromEvadeObjectInstances(instances) ==
    [i \in 1..Len(instances) |-> FromEvadeObjectInstance(instances[i])]

\* ObjectInstanceGpuData::create_bytes / cast_slice: the storage units of the
\* instances one after the other (translation, colour, runner flag).
RECURSIVE CastSlice(_)
CastSlice(instances) ==
    IF instances = <<>> THEN <<>>
    ELSE Head(instances).transform \o Head(instances).base_color
         \o <<Head(instances).apply_runner_transform>> \o CastSlice(Tail(instances))

\* Mutant of UpdatedTransform: the new translation is added to the old one.
UpdatedTransformAccumulated(transform, current_position) ==
    <<FAdd(transform[1], current_position[1]), Zero,
      FAdd(transform[3], current_position[2])>>

\* gpu_object_instances[i].transform = Matrix4::new_translation(..)
UpdatedTransform(transform, current_position) == NewTranslation(current_position)

\* SceneUniformGpuData { view_projection, runner_transform }
SceneUniformGpuData(view_projection, runner_transform) ==
    [view_projection |-> view_projection, runner_transform |-> runner_transform]

\* Matrix4::default(): the zero matrix, which is no translation.
DefaultMatrix == <<>>

\* let runner_speed = 15.0
RunnerSpeed == F(15)

\* main: the view_projection handed to update_view_projection in every frame
ViewProjection == <<"view_projection">>

\* update_view_projection
UpdateViewProjection(uniform, view_projection) ==
    SceneUniformGpuData(view_projection, uniform.runner_transform)

\* update_runner_position: scene_uniform.runner_transform =
\* Matrix4::new_translation(&Vector3::new(0.0, 0.0, -runner_position))
UpdateRunnerTransform(uniform, runner_position) ==
    SceneUniformGpuData(uniform.view_projection,
                        <<Zero, Zero, FSub(Zero, runner_position)>>)

\* The part of the TrackRenderer a frame works on.
TrackRendererState(instances, buffers, log, failed) ==
    [gpu_object_instances |-> instances, instance_buffers |-> buffers,
     frame_log |-> log, failed |-> failed]

\* The instanced draw units added before the evade notes (hit, contact, flick) and
\* after them (platform); each is given one resting instance.
RestingInstanceData ==
    CastSlice(<<[transform |-> NewTranslation(Vector2(Zero, Zero)),
                 base_color |-> DefaultColor, apply_runner_transform |-> 1]>>)
UnitsBeforeEvade ==
    <<InstancedDrawData(RestingInstanceData, 0), InstancedDrawData(RestingInstanceData, 0),
      InstancedDrawData(RestingInstanceData, 0)>>
UnitsAfterEvade == <<InstancedDrawData(RestingInstanceData, 0)>>

\* Mutant of EvadeRendererIndex: the index is taken after the evade unit is added.
EvadeRendererIndexAfterPush == Len(UnitsBeforeEvade) + 1

\* evade_notes_renderer_index = self.instanced_draw_data.len()
EvadeRendererIndex == Len(UnitsBeforeEvade)

\* RenderPipelines::instanced(), mosv_planes_smooth(), mosv_lines_smooth()
Pipelines == <<"instanced", "mosv_planes_smooth", "mosv_lines_smooth">>

\* update_evade_notes(current_time): every instance gets the translation of its
\* note at current_time, then the whole array is uploaded to the evade renderer;
\* the upload is unwrapped.
UpdateEvadeNotes(tr, notes, current_time) ==
    LET instances ==
            [i \in 1..Len(tr.gpu_object_instances) |->
                [tr.gpu_object_instances[i] EXCEPT
                    !.transform =
                        UpdatedTransform(@, EvadePositionAt(notes[i], current_time))]]
        upload == UpdateRendererInstanceData(tr.instance_buffers, EvadeRendererIndex,
                                             CastSlice(instances))
    IN  TrackRendererState(
            instances, upload[2],
            tr.frame_log \o <<Command("recompute", current_time),
                              Command("upload", EvadeRendererIndex)>>,
            tr.failed \/ upload[1] # "ok")

\* TrackRenderer::update_runner_position(runner_position, time)
UpdateRunnerPosition(tr, notes, time) == UpdateEvadeNotes(tr, notes, time)

\* TrackRenderer::render
TrackRendererRender(tr, groups, mosv) ==
    TrackRendererState(tr.gpu_object_instances, tr.instance_buffers,
                       tr.frame_log \o RenderLog(groups, mosv, tr.instance_buffers),
                       tr.failed \/ MosvBindPanics(mosv, Len(groups)))

\* Mutant of RedrawSteps: the frame is rendered before the evade notes are updated.
RedrawStepsRenderFirst == <<"frame_begin", "write_uniform", "submit", "update">>

\* WindowEvent::RedrawRequested, in the order of its calls: the time and the runner
\* position advance and update_view_projection / update_runner_position run
\* ("update"); track_renderer.render() enters Renderer::frame_begin, where
\* Device::frame_begin waits for the queue and resets the command pool of the slot
\* ("frame_begin"), then acquires the next image and writes the scene uniform
\* ("write_uniform"); the frame is recorded, submitted and presented ("submit").
\* The queue executes earlier submissions between these calls and while they run.
RedrawSteps == <<"update", "frame_begin", "write_uniform", "submit">>

\* The call of the handler that follows a call; after the last one the handler
\* returns and the next redraw starts with the first.
StepAfter(step) ==
    LET k == CHOOSE i \in 1..Len(RedrawSteps) : RedrawSteps[i] = step
    IN  RedrawSteps[(k % Len(RedrawSteps)) + 1]

\* The track renderer exists and has not failed; "wait_idle" is the handler inside
\* device_wait_idle after a failed present.
InRedraw ==
    render_pc \in {RedrawSteps[i] : i \in 1..Len(RedrawSteps)} \cup {"wait_idle"}

\* The log of the frame so far: a redraw starts a new one.
FrameLogSoFar == IF render_pc = RedrawSteps[1] THEN <<>> ELSE frame_log

\* The evade notes of a chart: up to MaxEvadeNotes of the notes above.
EvadeNoteLists ==
    UNION {{[k \in 1..n |-> EvadeNoteValues[pick[k]]] :
               pick \in {p \in [1..n -> 1..Len(EvadeNoteValues)] :
                            \A a, b \in 1..n : a < b => p[a] < p[b]}} :
           n \in 1..MaxEvadeNotes}

\* bytemuck::cast_slice of the scene uniform
UniformBytes(uniform) == uniform.view_projection \o uniform.runner_transform

\* State of main before the track renderer is created.
InitFrame ==
    /\ evade_notes_instances \in EvadeNoteLists
    /\ gpu_object_instances = <<>>
    /\ elapsed_time = Zero
    /\ current_runner_position = Zero
    /\ scene_uniform = <<>>
    /\ uniform_buffer_global = <<>>
    /\ copying = <<>>
    /\ InitRendererIdle
    /\ InitMosvIdle
    /\ InitTri
    /\ InitTimelineIdle
    /\ InitAuxIdle

\* TrackRenderer::new: RenderDescriptionCreator::create, then Renderer::new.
TrackRendererNew ==
    /\ render_pc = "idle"
    /\ gpu_object_instances' = FromEvadeObjectInstances(evade_notes_instances)
    /\ instanced_draw_data' =
          UnitsBeforeEvade
              \o <<InstancedDrawData(
                      CastSlice(FromEvadeObjectInstances(evade_notes_instances)), 0)>>
              \o UnitsAfterEvade
    /\ mosv_draw_data' = <<MOSVDrawData(1), MOSVDrawData(2)>>
    /\ graphics_pipelines_len' = Len(Pipelines)
    /\ instance_buffers' =
          [k \in 1..Len(instanced_draw_data') |->
              CreateInstanceBuffer(instanced_draw_data'[k])]
    /\ renderers_grouped_by_pipeline' =
          GroupRenderers(instanced_draw_data', 1, [p \in 1..Len(Pipelines) |-> <<>>])
    /\ scene_uniform' = SceneUniformGpuData(DefaultMatrix, DefaultMatrix)
    /\ render_pc' = RedrawSteps[1]
    /\ UNCHANGED <<frame_log, update_call, update_result, evade_notes_instances,
                   elapsed_time, current_runner_position, uniform_buffer_global,
                   copying, mosv_vars, tri_vars, timeline_vars, aux_vars>>

\* A copy of write_data into mapped memory the queue may be reading: what the
\* memory held before it and the time of the recompute that had produced that.
Copy(target, before, before_time) ==
    [target |-> target, before |-> before, before_time |-> before_time]

\* The start of the handler: elapsed_time and current_runner_position advance, then
\* update_view_projection and update_runner_position, which recomputes the evade
\* instances and copies them into the instance buffer of the evade unit. The queue
\* can read the buffer while the copy runs, which is any time before the handler's
\* next call.
RedrawUpdate ==
    /\ render_pc = "update"
    /\ frame_counters.absolute < MaxRedraws
    /\ \E dt \in FrameDeltas :
          /\ FLe(FAdd(elapsed_time, dt), F(MaxTime))
          /\ elapsed_time' = FAdd(elapsed_time, dt)
          /\ current_runner_position' =
                FAdd(current_runner_position, FMul(dt, RunnerSpeed))
          /\ scene_uniform' =
                UpdateRunnerTransform(
                    UpdateViewProjection(scene_uniform, ViewProjection),
                    current_runner_position')
          /\ LET tr == UpdateRunnerPosition(
                          TrackRendererState(gpu_object_instances, instance_buffers,
                                             FrameLogSoFar, FALSE),
                          evade_notes_instances, elapsed_time')
             IN  /\ gpu_object_instances' = tr.gpu_object_instances
                 /\ instance_buffers' = tr.instance_buffers
                 /\ frame_log' = tr.frame_log
                 /\ render_pc' = IF tr.failed THEN "panic" ELSE StepAfter("update")
    /\ copying' = Copy("instances", instance_buffers[EvadeRendererIndex + 1].data,
                       elapsed_time)
    /\ UNCHANGED <<instanced_draw_data, mosv_draw_data, graphics_pipelines_len,
                   renderers_grouped_by_pipeline, update_call, update_result,
                   evade_notes_instances, uniform_buffer_global, mosv_vars,
                   tri_vars, timeline_vars, aux_vars>>

\* TrackRenderer::render up to the acquire of Device::frame_begin:
\* update_scene_uniform_data, then the wait for the timeline semaphore and the reset
\* of the slot's command pool. The handler then blocks in acquire_next_image.
RenderFrameBegin ==
    /\ render_pc = "frame_begin"
    /\ frame_counters.absolute >= MAX_FRAMES =>
           semaphore_graphics_frame >= FrameSemaphoreGraphicsWaitValue(frame_counters)
    /\ ResetPool(frame_counters.current)
    /\ copying' = <<>>
    /\ frame_log' = FrameLogSoFar
    /\ render_pc' = StepAfter("frame_begin")
    /\ UNCHANGED <<instanced_draw_data, mosv_draw_data, graphics_pipelines_len,
                   renderers_grouped_by_pipeline, instance_buffers, update_call,
                   update_result, evade_notes_instances, gpu_object_instances,
                   elapsed_time, current_runner_position, scene_uniform,
                   uniform_buffer_global, device_vars, evade_vars, resolve_vars,
                   color_vars, load_vars, mosv_vars, tri_vars, timeline_vars>>

\* Renderer::frame_begin after Device::frame_begin: the image is acquired and the
\* scene uniform is copied into uniform_buffer_global, which the queue can read
\* while the copy runs.
RenderWriteUniform ==
    /\ render_pc = "write_uniform"
    /\ uniform_buffer_global' = UniformBytes(scene_uniform)
    /\ copying' = Copy("uniform", uniform_buffer_global, elapsed_time)
    /\ frame_log' = FrameLogSoFar
    /\ render_pc' = StepAfter("write_uniform")
    /\ UNCHANGED <<instanced_draw_data, mosv_draw_data, graphics_pipelines_len,
                   renderers_grouped_by_pipeline, instance_buffers, update_call,
                   update_result, evade_notes_instances, gpu_object_instances,
                   elapsed_time, current_runner_position, scene_uniform, gpu_vars,
                   evade_vars, resolve_vars, color_vars, load_vars, mosv_vars,
                   tri_vars, timeline_vars>>

\* Renderer::render after frame_begin: the frame's command buffer is taken and
\* recorded, queue_submit_commands_graphics submits it (signalling absolute + 1) and
\* swapchain_present presents and advances the counters; when queue_present fails,
\* the handler first enters device_wait_idle.
RenderSubmit ==
    /\ render_pc = "submit"
    /\ RequestAtPool(frame_counters.current)
    /\ copying' = <<>>
    /\ LET got == GetCommandBufferAtPool(command_buffer_manager, frame_counters.current)
           tr == TrackRendererRender(
                     TrackRendererState(gpu_object_instances, instance_buffers,
                                        FrameLogSoFar, FALSE),
                     renderers_grouped_by_pipeline, mosv_draw_data)
           submission == [command_buffer |-> got.result[2],
                          signal |-> frame_counters.absolute + 1,
                          frame_time |-> elapsed_time,
                          reads |-> [i \in 1..Len(evade_notes_instances) |-> <<>>]]
       IN  IF got.result[1] # "ok"
           THEN /\ render_pc' = "panic"
                /\ UNCHANGED <<frame_log, gpu_queue, frame_counters>>
           ELSE IF tr.failed
           THEN /\ render_pc' = "panic"
                /\ frame_log' = tr.frame_log
                /\ UNCHANGED <<gpu_queue, frame_counters>>
           ELSE /\ frame_log' = tr.frame_log
                /\ gpu_queue' = Append(gpu_queue, submission)
                /\ \E presented \in BOOLEAN :
                      IF presented
                      THEN /\ render_pc' = StepAfter("submit")
                           /\ frame_counters' = FrameCountersAdvance(frame_counters)
                      ELSE /\ render_pc' = "wait_idle"
                           /\ UNCHANGED frame_counters
    /\ UNCHANGED <<instanced_draw_data, mosv_draw_data, graphics_pipelines_len,
                   renderers_grouped_by_pipeline, instance_buffers, update_call,
                   update_result, evade_notes_instances, gpu_object_instances,
                   elapsed_time, current_runner_position, scene_uniform,
                   uniform_buffer_global, semaphore_graphics_frame, commands,
                   device_pc, evade_vars, resolve_vars, color_vars, load_vars,
                   mosv_vars, tri_vars, timeline_vars>>

\* swapchain_present after a failed queue_present: device_wait_idle returns when the
\* queue has completed everything submitted, then the counters advance.
DeviceWaitIdle ==
    /\ render_pc = "wait_idle"
    /\ gpu_queue = <<>>
    /\ frame_counters' = FrameCountersAdvance(frame_counters)
    /\ render_pc' = RedrawSteps[1]
    /\ UNCHANGED <<instanced_draw_data, mosv_draw_data, graphics_pipelines_len,
                   renderers_grouped_by_pipeline, instance_buffers, frame_log,
                   update_call, update_result, frame_vars, semaphore_graphics_frame,
                   gpu_queue, commands, device_pc, command_vars, evade_vars,
                   resolve_vars, color_vars, load_vars, mosv_vars, tri_vars,
                   timeline_vars>>

\* What a reader of mapped memory can get, word by word, while write_data copies
\* into it: the word from before the copy or the word copied. Words past the end of
\* what was there before have never been written.
RECURSIVE MixedWords(_, _)
MixedWords(before, after) ==
    IF after = <<>> THEN {<<>>}
    ELSE LET olds == IF before = <<>> THEN {"uninit"} ELSE {Head(before)}
             rest == MixedWords(IF before = <<>> THEN <<>> ELSE Tail(before),
                                Tail(after))
         IN  {<<w>> \o r : w \in olds \cup {Head(after)}, r \in rest}

\* The words of the i-th of n instances in the data of an instance buffer.
InstanceWords(data, i, n) ==
    LET words == Len(data) \div n
    IN  SubSeq(data, (i - 1) * words + 1, i * words)

\* What a fetch of the i-th evade instance by a draw of the queue can return now,
\* with the scene uniform the draw reads and the recomputes the words can be of.
InstanceReads(i) ==
    LET n == Len(evade_notes_instances)
        now == InstanceWords(instance_buffers[EvadeRendererIndex + 1].data, i, n)
        torn == copying # <<>> /\ copying.target = "instances"
        instances == IF torn
                     THEN MixedWords(InstanceWords(copying.before, i, n), now)
                     ELSE {now}
        uniforms == IF copying # <<>> /\ copying.target = "uniform"
                    THEN MixedWords(copying.before, uniform_buffer_global)
                    ELSE {uniform_buffer_global}
    IN  {[times |-> IF torn THEN {copying.before_time, elapsed_time}
                    ELSE {elapsed_time},
          instance |-> w,
          uniform |-> u] : w \in instances, u \in uniforms}

\* The queue executes the evade draw of its oldest submission: one more instance
\* is fetched, in no fixed order.
GpuReadInstance ==
    /\ InRedraw
    /\ gpu_queue # <<>>
    /\ \E i \in 1..Len(evade_notes_instances) :
          /\ Head(gpu_queue).reads[i] = <<>>
          /\ \E read \in InstanceReads(i) :
                gpu_queue' = <<[Head(gpu_queue) EXCEPT !.reads[i] = read]>>
                                 \o Tail(gpu_queue)
    /\ UNCHANGED <<renderer_vars, frame_vars, frame_counters,
                   semaphore_graphics_frame, commands, device_pc, command_vars,
                   evade_vars, resolve_vars, color_vars, load_vars, mosv_vars,
                   tri_vars, timeline_vars>>

\* The queue completes its oldest submission, whose draws have read the buffers:
\* the timeline semaphore is signalled.
GpuExecuteFrame ==
    /\ InRedraw
    /\ gpu_queue # <<>>
    /\ \A i \in 1..Len(evade_notes_instances) : Head(gpu_queue).reads[i] # <<>>
    /\ semaphore_graphics_frame' = Head(gpu_queue).signal
    /\ gpu_queue' = Tail(gpu_queue)
    /\ UNCHANGED <<renderer_vars, frame_vars, frame_counters, commands, device_pc,
                   command_vars, evade_vars, resolve_vars, color_vars, load_vars,
                   mosv_vars, tri_vars, timeline_vars>>

NextFrame ==
    \/ TrackRendererNew
    \/ RedrawUpdate
    \/ RenderFrameBegin
    \/ RenderWriteUniform
    \/ RenderSubmit
    \/ DeviceWaitIdle
    \/ GpuReadInstance
    \/ GpuExecuteFrame

SpecFrame == InitFrame /\ [][NextFrame]_vars

----------------------------------------------------------------------------
(* The colour lookup of track_description.rs as an operation of its own.   *)

InitOthersIdle ==
    /\ InitTri
    /\ InitTimelineIdle
    /\ InitMosvIdle
    /\ InitRendererIdle
    /\ InitFrameIdle
    /\ InitExtraIdle

\* Every u16 of HitNoteType(u16) / LaneType(u16).
TypeCodes == 0..(U16Modulus - 1)

InitColor ==
    /\ color_kind \in {"hit", "lane"}
    /\ color_code \in TypeCodes
    /\ color_result = <<"none">>
    /\ InitLoadIdle
    /\ InitOthersIdle

\* base_color: get_base_color_hit(note.ty) / get_base_color_lane(*lane_type)
GetBaseColor ==
    /\ color_result = <<"none">>
    /\ color_result' =
          <<"ok", IF color_kind = "hit" THEN GetBaseColorHit(color_code)
                  ELSE GetBaseColorLane(color_code)>>
    /\ UNCHANGED <<color_kind, color_code, load_vars, extra_vars, mosv_vars, renderer_vars,
                   frame_vars, tri_vars, timeline_vars>>

NextColor == GetBaseColor

SpecColor == InitColor /\ [][NextColor]_vars

----------------------------------------------------------------------------
(* eclale_chart/src/parse/ogkr.rs: create_chart_from_ogkr_file and         *)
(* OgkrChartCreator::new, and the start of main up to the first frame.     *)
(* An Option is <<>> for None and <<v>> for Some(v).                       *)

Some(v) == <<v>>
None == <<>>
Options(values) == {None} \cup {Some(v) : v \in values}

XResolutions == {4096}

OgkrHeaders ==
    [meter_definition : Options(TimeSignatures),
     bpm_definition : Options(BpmValues),
     tick_resolution : Options(Subdivisions),
     x_resolution : Options(XResolutions)]

----------------------------------------------------------------------------
(* eclale_chart/src/parse/ogkr.rs: create_evade_notes.                      *)
(* Its sums and differences mix values of different magnitude, so the f32   *)
(* operations are modelled with their rounding: an f32 is a dyadic rational *)
(* <<n, 2^k>> whose odd part fits in 24 bits, and every operation rounds    *)
(* its exact result to the nearest such value, ties to the even mantissa.   *)
(* Values stay within the normal range of f32 (no overflow, no subnormals). *)

MaxBullets == 2         \* most bullets of a chart

\* Number of mantissa values of an f32 (24 bits, hidden bit included).
F32Mantissa == 2 ^ 24

\* Nearest integer to n / q, ties to even.
RoundToEven(n, q) ==
    LET floor == n \div q
        rest == n % q
    IN  IF 2 * rest < q THEN floor
        ELSE IF 2 * rest > q THEN floor + 1
        ELSE IF floor % 2 = 0 THEN floor ELSE floor + 1

\* The power of two by which a numerator of magnitude m exceeds 24 bits.
RECURSIVE F32Ulp(_)
F32Ulp(m) == IF m < F32Mantissa THEN 1 ELSE 2 * F32Ulp(m \div 2)

\* Rounding of an exact dyadic value to f32.
F32Round(x) ==
    LET q == F32Ulp(Abs(x[1]))
    IN  Norm(RoundToEven(x[1], q) * q, x[2])

\* Exact sum of two dyadic values, on their common denominator.
DyadicAdd(a, b) ==
    LET d == IF a[2] >= b[2] THEN a[2] ELSE b[2]
    IN  Norm(a[1] * (d \div a[2]) + b[1] * (d \div b[2]), d)

DyadicNeg(a) == <<-a[1], a[2]>>

DyadicLe(a, b) == DyadicAdd(b, DyadicNeg(a))[1] >= 0

DyadicAbs(a) == <<Abs(a[1]), a[2]>>

\* f32 + f32, f32 - f32, f32 * f32
F32Add(a, b) == F32Round(DyadicAdd(a, b))
F32Sub(a, b) == F32Round(DyadicAdd(a, DyadicNeg(b)))
F32Mul(a, b) == F32Round(Norm(a[1] * b[1], a[2] * b[2]))

\* The f32 nearest to 0.4 (0x3ECCCCCD): the time of the second beat at 150 BPM.
F32Of04 == <<13421773, 2 ^ 25>>

\* let speed_factor = 1.5
SpeedFactor == <<3, 2>>

\* TrackPosition { time, z, x }
TrackPosition(time, z, x) == [time |-> time, z |-> z, x |-> x]

\* NoteMovement { start, end, trigger_time, duration }
NoteMovement(start, end, trigger_time, duration) ==
    [start |-> start, end |-> end, trigger_time |-> trigger_time,
     duration |-> duration]

\* EvadeNote { ty: EvadeNoteType(0), movement }
EvadeNote(movement) == [ty |-> 0, movement |-> movement]

\* The palette is skipped when its shooter is the enemy or its target the player.
SkippedPalette(palette) == palette.shooter = "Enemy" \/ palette.target = "Player"

\* Mutant of CreateEvadeNote: the trigger time is taken after the end time.
CreateEvadeNoteTriggerAfterEnd(end_position, palette) ==
    LET duration == F32Mul(palette.speed, SpeedFactor)
        start_time == F32Add(end_position.time, duration)
        start_z == F32Add(end_position.z, duration)
        trigger_time == F32Add(end_position.time, duration)
    IN  IF palette.shooter = "EndPosition"
        THEN <<"ok", EvadeNote(NoteMovement(
                        TrackPosition(start_time, start_z, end_position.x),
                        end_position, trigger_time, duration))>>
        ELSE IF palette.shooter = "Center"
        THEN <<"ok", EvadeNote(NoteMovement(
                        TrackPosition(start_time, start_z, Zero),
                        end_position, trigger_time, duration))>>
        ELSE <<"panic">>

\* The body of the loop of create_evade_notes for a palette that is not skipped:
\* duration, start position, trigger time and the note; a shooter other than
\* EndPosition and Center reaches todo!().
CreateEvadeNote(end_position, palette) ==
    LET duration == F32Mul(palette.speed, SpeedFactor)
        start_time == F32Add(end_position.time, duration)
        start_z == F32Add(end_position.z, duration)
        trigger_time == F32Sub(end_position.time, duration)
    IN  IF palette.shooter = "EndPosition"
        THEN <<"ok", EvadeNote(NoteMovement(
                        TrackPosition(start_time, start_z, end_position.x),
                        end_position, trigger_time, duration))>>
        ELSE IF palette.shooter = "Center"
        THEN <<"ok", EvadeNote(NoteMovement(
                        TrackPosition(start_time, start_z, Zero),
                        end_position, trigger_time, duration))>>
        ELSE <<"panic">>

\* A bullet with its palette and its resolved position
\* (create_track_position(bullet.position)).
Bullet(time, z, x, speed, shooter, target) ==
    [position |-> TrackPosition(time, z, x),
     palette |-> [speed |-> speed, shooter |-> shooter, target |-> target]]

BulletValues ==
    {Bullet(F(2), F(2), Half, One, "EndPosition", "FixField"),
     Bullet(F(2), F(2), Half, F(2), "Center", "FixField"),
     Bullet(F32Of04, F32Of04, Half, One, "EndPosition", "FixField"),
     Bullet(F32Of04, One, Half, One, "Center", "FixField"),
     Bullet(One, F32Of04, Half, Half, "EndPosition", "FixField"),
     Bullet(One, One, Half, One, "Enemy", "FixField"),
     Bullet(One, One, Half, One, "Center", "Player"),
     Bullet(One, One, Half, One, "Player", "FixField")}

BulletLists == UNION {[1..n -> BulletValues] : n \in 0..MaxBullets}

InitEvade ==
    /\ bullets \in BulletLists
    /\ bullet_cursor = 0
    /\ evade_notes = <<>>
    /\ evade_pc = "loop"
    /\ InitColorIdle
    /\ InitLoadIdle
    /\ InitTri
    /\ InitTimelineIdle
    /\ InitMosvIdle
    /\ InitRendererIdle
    /\ InitFrameIdle
    /\ InitResolveIdle
    /\ InitGpuIdle

\* for bullet in self.ogkr.bullets.all_bullets() { .. }: one iteration
VisitBullet ==
    /\ evade_pc = "loop"
    /\ bullet_cursor < Len(bullets)
    /\ LET bullet == bullets[bullet_cursor + 1]
           created == CreateEvadeNote(bullet.position, bullet.palette)
       IN  IF SkippedPalette(bullet.palette)
           THEN /\ bullet_cursor' = bullet_cursor + 1
                /\ UNCHANGED <<evade_notes, evade_pc>>
           ELSE IF created[1] = "ok"
           THEN /\ bullet_cursor' = bullet_cursor + 1
                /\ evade_notes' = Append(evade_notes, created[2])
                /\ UNCHANGED evade_pc
           ELSE /\ evade_pc' = "panic"
                /\ UNCHANGED <<bullet_cursor, evade_notes>>
    /\ UNCHANGED <<bullets, resolve_vars, gpu_vars, color_vars, load_vars, mosv_vars,
                   renderer_vars, frame_vars, tri_vars, timeline_vars>>

\* create_evade_notes returns evade_notes
ReturnEvadeNotes ==
    /\ evade_pc = "loop"
    /\ bullet_cursor = Len(bullets)
    /\ evade_pc' = "done"
    /\ UNCHANGED <<bullets, bullet_cursor, evade_notes, resolve_vars, gpu_vars, color_vars,
                   load_vars, mosv_vars, renderer_vars, frame_vars, tri_vars,
                   timeline_vars>>

NextEvade == VisitBullet \/ ReturnEvadeNotes

SpecEvade == InitEvade /\ [][NextEvade]_vars

----------------------------------------------------------------------------
(* create_chart_from_ogkr_file: OgkrChartCreator::new, then create().       *)

\* A key of a composition list, a timing point of a note or of a lane point, and
\* a bullet with what get_bullet_palette finds for its palette_id.
CompositionKey(measure) == <<[measure |-> measure, value |-> 240]>>
TimingPoints(measure_list) == [i \in 1..Len(measure_list) |-> [measure |-> measure_list[i]]]
OgkrBullet(measure, palette) == [position |-> [measure |-> measure], palette |-> palette]
Palette(shooter, target) == [speed |-> One, shooter |-> shooter, target |-> target]

\* ogkr.composition, ogkr.extra_metadata.num_measures, what get_lane finds for the
\* lane ids of ogkr.track (a lane is its points), the positions of ogkr.notes and
\* ogkr.bullets.
OgkrBodies ==
    [bpm_changes : {CompositionKey(0), CompositionKey(1), CompositionKey(2)},
     meter_changes : {<<>>},
     soflans : {<<>>},
     num_measures : {0, 1},
     lanes : {<<Some(TimingPoints(<<0>>))>>, <<None>>},
     notes : {TimingPoints(<<0>>), TimingPoints(<<0, 1>>)},
     bullets : {<<>>,
                <<OgkrBullet(0, Some(Palette("Center", "FixField"))),
                  OgkrBullet(0, Some(Palette("Enemy", "FixField")))>>,
                <<OgkrBullet(0, Some(Palette("Player", "FixField")))>>,
                <<OgkrBullet(0, None)>>}]

\* The loop of create_z_position_calculator on one list: whether a peek at a key
\* of measure 0 is reached, whose measure - 1 overflows.
RECURSIVE FoldPeekOverflows(_, _, _, _)
FoldPeekOverflows(changes, cursor, index, n) ==
    IF index \notin LoopRange(n) THEN FALSE
    ELSE IF PeekOverflows(changes, cursor) THEN TRUE
    ELSE FoldPeekOverflows(changes, CursorAfter(changes, cursor, index), index + 1, n)

\* create_z_position_calculator(&ogkr.composition, .., num_measures): it panics
\* when the build checks for overflow and one of the three lists overflows.
CreateZPositionCalculatorPanics(body, n) ==
    /\ overflow_checks
    /\ \/ FoldPeekOverflows(body.bpm_changes, 0, 0, n)
       \/ FoldPeekOverflows(body.meter_changes, 0, 0, n)
       \/ FoldPeekOverflows(body.soflans, 0, 0, n)

\* Mutant of OgkrChartCreatorNew: a missing tick resolution is replaced by the
\* subdivision 4.
OgkrChartCreatorNewDefaultTick(header, body) ==
    IF header.meter_definition = None \/ header.bpm_definition = None
          \/ header.x_resolution = None
    THEN <<"panic">>
    ELSE IF CreateZPositionCalculatorPanics(body, body.num_measures + 1)
    THEN <<"panic">>
    ELSE <<"ok", [starting_time_signature |-> header.meter_definition[1],
                  starting_bpm |-> header.bpm_definition[1],
                  subdivision |-> IF header.tick_resolution = None THEN 4
                                  ELSE header.tick_resolution[1],
                  x_resolution |-> header.x_resolution[1],
                  num_measures |-> body.num_measures + 1]>>

\* OgkrChartCreator::new: meter_definition, bpm_definition and tick_resolution are
\* unwrapped in this order, create_z_position_calculator runs over
\* extra_metadata.num_measures + 1 measures, then x_resolution is unwrapped.
OgkrChartCreatorNew(header, body) ==
    IF header.meter_definition = None THEN <<"panic">>
    ELSE IF header.bpm_definition = None THEN <<"panic">>
    ELSE IF header.tick_resolution = None THEN <<"panic">>
    ELSE IF CreateZPositionCalculatorPanics(body, body.num_measures + 1)
    THEN <<"panic">>
    ELSE IF header.x_resolution = None THEN <<"panic">>
    ELSE <<"ok", [starting_time_signature |-> header.meter_definition[1],
                  starting_bpm |-> header.bpm_definition[1],
                  subdivision |-> header.tick_resolution[1],
                  x_resolution |-> header.x_resolution[1],
                  num_measures |-> body.num_measures + 1]>>

\* self.z_position(time): z_position_at indexes self.measures[time.measure], one
\* entry per measure of the calculator, and panics past the last.
ZPositionPanics(creator, time) ==
    ~MeasureInRange([k \in 1..creator.num_measures |-> k], time.measure)

\* create_track: get_lane(lane_id) is unwrapped and every point of the lane is
\* resolved.
CreateTrackPanics(creator, body) ==
    \E i \in 1..Len(body.lanes) :
        \/ body.lanes[i] = None
        \/ \E j \in 1..Len(body.lanes[i][1]) :
              ZPositionPanics(creator, body.lanes[i][1][j])

\* create_evade_notes: get_bullet_palette(..) is unwrapped; a palette that is not
\* skipped has the position of its bullet resolved and its shooter matched.
CreateEvadeNotesPanics(creator, body) ==
    \E i \in 1..Len(body.bullets) :
        LET bullet == body.bullets[i]
        IN  \/ bullet.palette = None
            \/ /\ ~SkippedPalette(bullet.palette[1])
               /\ \/ ZPositionPanics(creator, bullet.position)
                  \/ CreateEvadeNote(TrackPosition(Zero, Zero, Zero),
                                     bullet.palette[1])[1] = "panic"

\* create_notes: the position of every note is resolved, then create_evade_notes.
CreateNotesPanics(creator, body) ==
    \/ \E i \in 1..Len(body.notes) : ZPositionPanics(creator, body.notes[i])
    \/ CreateEvadeNotesPanics(creator, body)

\* create_composition: the timing point of every change is resolved.
CreateCompositionPanics(creator, body) ==
    \E changes \in {body.bpm_changes, body.meter_changes, body.soflans} :
        \E i \in 1..Len(changes) : ZPositionPanics(creator, changes[i])

\* OgkrChartCreator::create: create_track, create_notes, create_composition.
Create(creator, body) ==
    IF \/ CreateTrackPanics(creator, body)
       \/ CreateNotesPanics(creator, body)
       \/ CreateCompositionPanics(creator, body)
    THEN <<"panic">>
    ELSE <<"chart", creator>>

\* State of main before the chart file is read.
InitLoad ==
    /\ ogkr_header \in OgkrHeaders
    /\ ogkr_body \in OgkrBodies
    /\ parse_ok \in BOOLEAN
    /\ chart = <<"none">>
    /\ main_pc = "start"
    /\ side_a_vertices = <<>>
    /\ side_b_vertices = <<>>
    /\ overflow_checks \in BOOLEAN
    /\ plane = <<"none">>
    /\ tri_pc = "idle"
    /\ InitColorIdle
    /\ InitTimelineIdle
    /\ InitMosvIdle
    /\ InitRendererIdle
    /\ InitFrameIdle
    /\ InitExtraIdle

\* create_chart_from_ogkr_file(chart_file_path)?: parse_ogkr(..)?, then
\* OgkrChartCreator::new(ogkr), then create(); a panic of new or of create ends
\* the program.
CreateChartFromOgkrFile ==
    /\ main_pc = "start"
    /\ LET creator == OgkrChartCreatorNew(ogkr_header, ogkr_body)
       IN  IF ~parse_ok \/ creator[1] = "panic"
           THEN /\ main_pc' = "failed"
                /\ UNCHANGED chart
           ELSE IF Create(creator[2], ogkr_body)[1] = "panic"
           THEN /\ main_pc' = "failed"
                /\ UNCHANGED chart
           ELSE /\ main_pc' = "chart"
                /\ chart' = Create(creator[2], ogkr_body)
    /\ UNCHANGED <<ogkr_header, ogkr_body, parse_ok, color_vars, extra_vars, mosv_vars,
                   renderer_vars, frame_vars, tri_vars, timeline_vars>>

\* TrackDescription::from_chart(&chart, ..): the draw data is built, or building
\* it panics.
FromChart ==
    /\ main_pc = "chart"
    /\ \E built \in BOOLEAN :
          main_pc' = IF built THEN "description" ELSE "failed"
    /\ UNCHANGED <<ogkr_header, ogkr_body, parse_ok, chart, color_vars, extra_vars,
                   mosv_vars, renderer_vars,
                   frame_vars, tri_vars, timeline_vars>>

\* TrackRenderer::new(.., render_track_description)?
MainTrackRendererNew ==
    /\ main_pc = "description"
    /\ \E created \in BOOLEAN :
          main_pc' = IF created THEN "renderer" ELSE "failed"
    /\ UNCHANGED <<ogkr_header, ogkr_body, parse_ok, chart, color_vars, extra_vars,
                   mosv_vars, renderer_vars,
                   frame_vars, tri_vars, timeline_vars>>

\* The first WindowEvent::RedrawRequested: track_renderer.render().unwrap()
FirstRedraw ==
    /\ main_pc = "renderer"
    /\ \E drawn \in BOOLEAN :
          main_pc' = IF drawn THEN "rendered" ELSE "failed"
    /\ UNCHANGED <<ogkr_header, ogkr_body, parse_ok, chart, color_vars, extra_vars,
                   mosv_vars, renderer_vars,
                   frame_vars, tri_vars, timeline_vars>>

NextLoad == CreateChartFromOgkrFile \/ FromChart \/ MainTrackRendererNew \/ FirstRedraw

SpecLoad == InitLoad /\ [][NextLoad]_vars

----------------------------------------------------------------------------
(* lyzumu_graphics/src/vulkan/command.rs: CommandBufferManager.            *)

MaxPools == 3
MaxBuffersPerPool == 2

NumPools == Len(command_buffer_manager.num_used_command_buffers_per_pool)

Panicked == last_request # <<>> /\ last_request[3] = <<"panic">>

InitCommand ==
    /\ \E num_command_pools \in 1..MaxPools :
       \E num_command_buffers_per_pool \in 1..MaxBuffersPerPool :
          /\ command_buffer_manager =
                 CommandBufferManagerNew(num_command_pools, num_command_buffers_per_pool)
          /\ handed = [p \in 1..num_command_pools |-> <<>>]
    /\ last_request = <<>>
    /\ InitDeviceIdle
    /\ InitEvadeIdle
    /\ InitResolveIdle
    /\ InitColorIdle
    /\ InitLoadIdle
    /\ InitTri
    /\ InitTimelineIdle
    /\ InitMosvIdle
    /\ InitRendererIdle
    /\ InitFrameIdle

\* get_command_buffer_at_pool(pool_index)
GetCommandBuffer ==
    /\ ~Panicked
    /\ \E pool_index \in 0..(NumPools - 1) : RequestAtPool(pool_index)
    /\ UNCHANGED <<device_vars, evade_vars, resolve_vars, color_vars, load_vars, mosv_vars,
                   renderer_vars, frame_vars, tri_vars, timeline_vars>>

\* reset_command_pools(&[pool_index])
ResetCommandPool ==
    /\ ~Panicked
    /\ \E pool_index \in 0..(NumPools - 1) : ResetPool(pool_index)
    /\ UNCHANGED <<device_vars, evade_vars, resolve_vars, color_vars, load_vars, mosv_vars,
                   renderer_vars, frame_vars, tri_vars, timeline_vars>>

NextCommand == GetCommandBuffer \/ ResetCommandPool

SpecCommand == InitCommand /\ [][NextCommand]_vars

----------------------------------------------------------------------------
(* lyzumu_graphics/src/vulkan/device.rs: the frame of Renderer::render      *)
(* (frame_begin, get_current_command_buffer, queue_submit_commands_graphics,*)
(* swapchain_present) against a queue that completes its submissions in     *)
(* submission order and signals a submission's semaphores when it completes.*)

MaxDeviceFrames == 16

InitDevice ==
    /\ InitCommandIdle
    /\ frame_counters = [current |-> 0, previous |-> 0, absolute |-> 0]
    /\ semaphore_graphics_frame = 0
    /\ gpu_queue = <<>>
    /\ commands = None
    /\ device_pc = "begin"
    /\ InitEvadeIdle
    /\ InitResolveIdle
    /\ InitColorIdle
    /\ InitLoadIdle
    /\ InitTri
    /\ InitTimelineIdle
    /\ InitMosvIdle
    /\ InitRendererIdle
    /\ InitFrameIdle

\* Device::frame_begin: wait_semaphores blocks until the timeline semaphore has
\* reached the wait value, then the slot's command pool is reset and the next image
\* acquired (after a recreation of the swapchain if need be).
FrameBegin ==
    /\ device_pc = "begin"
    /\ frame_counters.absolute < MaxDeviceFrames
    /\ frame_counters.absolute >= MAX_FRAMES =>
           semaphore_graphics_frame >= FrameSemaphoreGraphicsWaitValue(frame_counters)
    /\ ResetPool(frame_counters.current)
    /\ device_pc' = "record"
    /\ UNCHANGED <<frame_counters, semaphore_graphics_frame, gpu_queue, commands,
                   evade_vars, resolve_vars, color_vars, load_vars, mosv_vars,
                   renderer_vars, frame_vars, tri_vars, timeline_vars>>

\* Device::get_current_command_buffer, as render calls it once a frame
GetCurrentCommandBuffer ==
    /\ device_pc = "record"
    /\ RequestAtPool(frame_counters.current)
    /\ LET got == GetCommandBufferAtPool(command_buffer_manager, frame_counters.current)
       IN  IF got.result[1] = "ok"
           THEN /\ commands' = Some(got.result[2])
                /\ device_pc' = "submit"
           ELSE /\ commands' = None
                /\ device_pc' = "failed"
    /\ UNCHANGED <<frame_counters, semaphore_graphics_frame, gpu_queue,
                   evade_vars, resolve_vars, color_vars, load_vars, mosv_vars,
                   renderer_vars, frame_vars, tri_vars, timeline_vars>>

\* Device::queue_submit_commands_graphics: the submission signals the timeline
\* semaphore with absolute + 1.
QueueSubmitCommandsGraphics ==
    /\ device_pc = "submit"
    /\ gpu_queue' = Append(gpu_queue,
                           [command_buffer |-> commands[1],
                            signal |-> frame_counters.absolute + 1])
    /\ device_pc' = "present"
    /\ UNCHANGED <<frame_counters, semaphore_graphics_frame, commands, command_vars,
                   evade_vars, resolve_vars, color_vars, load_vars, mosv_vars,
                   renderer_vars, frame_vars, tri_vars, timeline_vars>>

\* Device::swapchain_present up to the return of queue_present: when it succeeds
\* the counters advance; when it fails the call enters device_wait_idle, with the
\* counters as they are.
SwapchainPresent ==
    /\ device_pc = "present"
    /\ \E presented \in BOOLEAN :
          IF presented
          THEN /\ frame_counters' = FrameCountersAdvance(frame_counters)
               /\ commands' = None
               /\ device_pc' = "begin"
          ELSE /\ device_pc' = "wait_idle"
               /\ UNCHANGED <<frame_counters, commands>>
    /\ UNCHANGED <<gpu_queue, semaphore_graphics_frame, command_vars, evade_vars,
                   resolve_vars, color_vars, load_vars, mosv_vars, renderer_vars,
                   frame_vars, tri_vars, timeline_vars>>

\* Device::swapchain_present after a failed queue_present: device_wait_idle returns
\* when the queue has completed everything submitted, then the counters advance.
SwapchainPresentWaitIdle ==
    /\ device_pc = "wait_idle"
    /\ gpu_queue = <<>>
    /\ frame_counters' = FrameCountersAdvance(frame_counters)
    /\ commands' = None
    /\ device_pc' = "begin"
    /\ UNCHANGED <<gpu_queue, semaphore_graphics_frame, command_vars, evade_vars,
                   resolve_vars, color_vars, load_vars, mosv_vars, renderer_vars,
                   frame_vars, tri_vars, timeline_vars>>

\* The queue completes its oldest submission and signals the timeline semaphore.
GpuComplete ==
    /\ device_pc # "idle"
    /\ gpu_queue # <<>>
    /\ semaphore_graphics_frame' = Head(gpu_queue).signal
    /\ gpu_queue' = Tail(gpu_queue)
    /\ UNCHANGED <<frame_counters, commands, device_pc, command_vars,
                   evade_vars, resolve_vars, color_vars, load_vars, mosv_vars,
                   renderer_vars, frame_vars, tri_vars, timeline_vars>>

NextDevice ==
    \/ FrameBegin
    \/ GetCurrentCommandBuffer
    \/ QueueSubmitCommandsGraphics
    \/ SwapchainPresent
    \/ SwapchainPresentWaitIdle
    \/ GpuComplete

SpecDevice == InitDevice /\ [][NextDevice]_vars


----------------------------------------------------------------------------
(* Properties of the merged meshes.                                        *)

\* Number of vertices merged before the k-th merged mesh (k = 1, 2, ...).
VerticesBefore(k) == RunsLen(SubSeq(mosv_objects_indices, 1, k - 1))

\* runs[v] for a 0-based position v of the array the runs stand for, or -1 past
\* its end.
RECURSIVE RunValueAt(_, _)
RunValueAt(runs, v) ==
    IF runs = <<>> THEN -1
    ELSE IF v < runs[1].count THEN runs[1].value
    ELSE RunValueAt(Tail(runs), v - runs[1].count)

\* objects_indices[v]
ObjectIndexOfVertex(v) == RunValueAt(mosv_objects_indices, v)

\* C12: in a constructed merged unit the per-vertex object-index array is as long as
\* the vertex array, every object index is below objects.len(), the largest and the
\* last object index are objects.len() - 1, and every object owns some vertex.
C12_ObjectIndexArray ==
    mosv_pc = "done" =>
        /\ RunsLen(mosv_objects_indices) = mosv_vertices_len
        /\ \A r \in 1..Len(mosv_objects_indices) :
              mosv_objects_indices[r].value < Len(mosv_objects)
        /\ \E r \in 1..Len(mosv_objects_indices) :
              /\ mosv_objects_indices[r].count > 0
              /\ mosv_objects_indices[r].value = Len(mosv_objects) - 1
        /\ mosv_objects_indices[Len(mosv_objects_indices)].count > 0
        /\ mosv_objects_indices[Len(mosv_objects_indices)].value = Len(mosv_objects) - 1
        /\ \A o \in 0..(Len(mosv_objects) - 1) :
              \E r \in 1..Len(mosv_objects_indices) :
                  /\ mosv_objects_indices[r].count > 0
                  /\ mosv_objects_indices[r].value = o

\* A lanes unit was built from a chart with an enemy lane and two other lanes.
C12_Witness ==
    /\ mosv_pc = "done"
    /\ mosv_kind = "lanes"
    /\ Len(mosv_input) = 3
    /\ mosv_input[1].ty = 4
    /\ Len(mosv_objects) = 2
    /\ mosv_vertices_len = 2 * (mosv_input[2].points + mosv_input[3].points)

\* C13: in a merged unit every index emitted for the k-th object is that object's
\* local index plus the number of vertices merged before it, and so refers to a
\* vertex whose object index is k; for any number of objects, merged meshes of more
\* than 65535 vertices included.
C13_IndexRebasing ==
    mosv_pc = "done" =>
        \A k \in 1..Len(mosv_indices) :
            LET vertices_before == VerticesBefore(k)
            IN  \A j \in 1..mosv_indices[k].count :
                    /\ MergedIndex(mosv_indices[k], j)
                          = PlaneMeshIndex(j) + vertices_before
                    /\ ObjectIndexOfVertex(MergedIndex(mosv_indices[k], j))
                          = mosv_objects_indices[k].value

----------------------------------------------------------------------------
(* Properties of the Renderer.                                             *)

\* The last update call named an existing unit and gave it data of another length
\* than the unit's instance buffer.
WrongLengthCall(c, buffers) ==
    /\ c # <<>>
    /\ c[1] < Len(buffers)
    /\ Len(c[2]) # buffers[c[1] + 1].size

\* C17: an instance-data update whose data length differs from the size of the
\* unit's instance data (stride times count) fails loudly and writes nothing into
\* the unit's instance buffer, neither a truncated nor an oversized region.
C17_WrongLengthFailsLoudly ==
    [][(render_pc' = "ready" /\ WrongLengthCall(update_call', instance_buffers)) =>
          /\ update_result' = "err"
          /\ instance_buffers' = instance_buffers]_vars

\* A too short and a too long slice have each been refused, the buffer keeping the
\* data it was created with.
C17_Witness ==
    /\ render_pc = "ready"
    /\ WrongLengthCall(update_call, instance_buffers)
    /\ Len(update_call[2]) > instance_buffers[update_call[1] + 1].size
    /\ update_result = "err"
    /\ instance_buffers[update_call[1] + 1].data
          = instanced_draw_data[update_call[1] + 1].instance_data
    /\ ~instance_buffers[update_call[1] + 1].overrun

\* Positions of a command in the log of the last frame.
Positions(op, arg) ==
    {i \in 1..Len(frame_log) : frame_log[i] = Command(op, arg)}

\* The position of the only occurrence of a command.
PositionOf(op, arg) == CHOOSE i \in Positions(op, arg) : TRUE

\* The pipeline bound when the command at position i is recorded, or -1.
BoundPipelineAt(i) ==
    IF \E b \in 1..(i - 1) : frame_log[b].op = "bind_pipeline"
    THEN frame_log[CHOOSE b \in 1..(i - 1) :
                      /\ frame_log[b].op = "bind_pipeline"
                      /\ \A c \in (b + 1)..(i - 1) :
                            frame_log[c].op # "bind_pipeline"].arg
    ELSE -1

\* C18: for a description whose pipeline indices all name a pipeline, a frame
\* records exactly one draw per draw unit; the instanced units of one pipeline are
\* drawn next to each other, in array order, after one bind of that pipeline; every
\* MOSV unit is drawn once, in array order, with its pipeline bound. A MOSV unit
\* that names no pipeline makes render panic before anything is submitted.
C18_OneDrawPerUnitGrouped ==
    frame_log # <<>> =>
      IF MosvBindPanics(mosv_draw_data, graphics_pipelines_len)
      THEN /\ render_pc = "panic"
           /\ \A i \in 1..Len(frame_log) : frame_log[i].op # "submit"
      ELSE
        LET units == 0..(Len(instanced_draw_data) - 1)
            mosv_units == 0..(Len(mosv_draw_data) - 1)
        IN  /\ \A u \in units : Cardinality(Positions("draw_instanced", u)) = 1
            /\ \A m \in mosv_units : Cardinality(Positions("draw_mosv", m)) = 1
            /\ \A i \in 1..Len(frame_log) :
                  /\ frame_log[i].op = "draw_instanced" => frame_log[i].arg \in units
                  /\ frame_log[i].op = "draw_mosv" => frame_log[i].arg \in mosv_units
            /\ \A u \in units :
                  BoundPipelineAt(PositionOf("draw_instanced", u))
                      = instanced_draw_data[u + 1].pipeline_index
            /\ \A u, v \in units :
                  (u < v /\ instanced_draw_data[u + 1].pipeline_index
                                = instanced_draw_data[v + 1].pipeline_index) =>
                      /\ PositionOf("draw_instanced", u) < PositionOf("draw_instanced", v)
                      /\ \A i \in (PositionOf("draw_instanced", u) + 1)
                                    ..(PositionOf("draw_instanced", v) - 1) :
                            /\ frame_log[i].op = "draw_instanced"
                            /\ instanced_draw_data[frame_log[i].arg + 1].pipeline_index
                                  = instanced_draw_data[u + 1].pipeline_index
            /\ \A m \in mosv_units :
                  BoundPipelineAt(PositionOf("draw_mosv", m))
                      = mosv_draw_data[m + 1].pipeline_index
            /\ \A m, n \in mosv_units :
                  m < n => PositionOf("draw_mosv", m) < PositionOf("draw_mosv", n)

\* A frame was recorded for three instanced units whose pipelines alternate and two
\* MOSV units: the first and third unit are drawn before the second.
C18_Witness ==
    /\ frame_log # <<>>
    /\ render_pc = "ready"
    /\ Len(instanced_draw_data) = 3
    /\ instanced_draw_data[1].pipeline_index = 1
    /\ instanced_draw_data[2].pipeline_index = 0
    /\ instanced_draw_data[3].pipeline_index = 1
    /\ Len(mosv_draw_data) = 2
    /\ PositionOf("draw_instanced", 1) < PositionOf("draw_instanced", 0)
    /\ PositionOf("draw_instanced", 2) = PositionOf("draw_instanced", 0) + 1

----------------------------------------------------------------------------
(* Properties of the per-frame evade update and of the redraw handler.     *)

\* A redraw has run to its end.
FrameDrawn == render_pc = RedrawSteps[1] /\ frame_log # <<>>

\* <<x, z>> of the translation of the i-th evade instance
InstancePosition(i) ==
    Vector2(gpu_object_instances[i].transform[1], gpu_object_instances[i].transform[3])

ScenarioNote ==
    EvadeObjectInstance(Vector2(Zero, Zero), Vector2(F(10), F(10)), F(2), One)

\* C14: a movement with trigger_time 2, duration 1, start (0,0) and end (10,10) is at
\* its start at time 1, at its end at time 3.5 and at (5,5) at time 2.5; in general
\* the position is the start before trigger_time, the end after
\* trigger_time + duration, and start + t * (end - start) with
\* t = (current_time - trigger_time) / duration in between.
C14_EvadeInterpolation ==
    FrameDrawn =>
        \A i \in 1..Len(evade_notes_instances) :
            LET note == evade_notes_instances[i]
                ending == FAdd(note.trigger_time, note.duration)
                t == FDivIeee(FSub(elapsed_time, note.trigger_time), note.duration)
            IN  /\ (note = ScenarioNote /\ elapsed_time = One) =>
                       InstancePosition(i) = Vector2(Zero, Zero)
                /\ (note = ScenarioNote /\ elapsed_time = <<7, 2>>) =>
                       InstancePosition(i) = Vector2(F(10), F(10))
                /\ (note = ScenarioNote /\ elapsed_time = <<5, 2>>) =>
                       InstancePosition(i) = Vector2(F(5), F(5))
                /\ FLt(elapsed_time, note.trigger_time) =>
                       InstancePosition(i) = note.start_position
                /\ FLt(ending, elapsed_time) =>
                       InstancePosition(i) = note.end_position
                /\ (FLe(note.trigger_time, elapsed_time) /\ FLe(elapsed_time, ending)) =>
                       InstancePosition(i) =
                           VAdd(note.start_position,
                                VScale(t, VSub(note.end_position, note.start_position)))

\* The movement of the example has been drawn at time 3.5, at its end position.
C14_Witness ==
    /\ FrameDrawn
    /\ evade_notes_instances[1] = ScenarioNote
    /\ elapsed_time = <<7, 2>>
    /\ InstancePosition(1) = Vector2(F(10), F(10))

\* The track renderer as TrackRenderer::new leaves it.
FreshTrackRenderer ==
    TrackRendererState(FromEvadeObjectInstances(evade_notes_instances),
                       [k \in 1..Len(instanced_draw_data) |->
                           CreateInstanceBuffer(instanced_draw_data[k])],
                       <<>>, FALSE)

\* C15: whatever updates came before, after the update at time T every evade
\* instance (and the uploaded instance data) is what one update at T of the freshly
\* built renderer gives, and a second update at T changes nothing.
C15_UpdateHistoryFree ==
    FrameDrawn =>
        LET once == UpdateEvadeNotes(FreshTrackRenderer, evade_notes_instances,
                                     elapsed_time)
            again == UpdateEvadeNotes(
                        TrackRendererState(gpu_object_instances, instance_buffers,
                                           <<>>, FALSE),
                        evade_notes_instances, elapsed_time)
        IN  /\ gpu_object_instances = once.gpu_object_instances
            /\ instance_buffers = once.instance_buffers
            /\ again.gpu_object_instances = gpu_object_instances
            /\ again.instance_buffers = instance_buffers

\* A frame at time 2.5, which follows at least two frames at earlier times, left a
\* moving instance halfway.
C15_Witness ==
    /\ FrameDrawn
    /\ elapsed_time = <<5, 2>>
    /\ Len(evade_notes_instances) = 2
    /\ evade_notes_instances[2] = ScenarioNote
    /\ InstancePosition(2) = Vector2(F(5), F(5))

\* The evade instances of time T, as bytes.
EvadeDataAt(time) ==
    CastSlice([i \in 1..Len(evade_notes_instances) |->
                  [FromEvadeObjectInstance(evade_notes_instances[i]) EXCEPT
                      !.transform =
                          NewTranslation(EvadePositionAt(evade_notes_instances[i],
                                                         time))]])

\* The i-th evade instance of time T, as bytes.
EvadeInstanceAt(i, time) ==
    CastSlice(<<[FromEvadeObjectInstance(evade_notes_instances[i]) EXCEPT
                    !.transform =
                        NewTranslation(EvadePositionAt(evade_notes_instances[i],
                                                       time))]>>)

\* C16: in every frame the evade recompute for the frame's time and the upload of
\* its result come first, in this order; every bind, draw and the submission of the
\* frame come after the upload, and at the submission the evade buffer holds the
\* data of the frame's time. Whatever the queue fetches for the evade draw of a
\* frame, every word of it is of a recompute that is not older than the frame's own.
C16_UploadBeforeDraw ==
    /\ FrameDrawn =>
        /\ frame_log[1] = Command("recompute", elapsed_time)
        /\ frame_log[2] = Command("upload", EvadeRendererIndex)
        /\ \A i \in 3..Len(frame_log) :
              frame_log[i].op \in {"bind_pipeline", "draw_instanced", "draw_mosv",
                                   "submit"}
        /\ \E i \in 3..Len(frame_log) :
              /\ frame_log[i] = Command("draw_instanced", EvadeRendererIndex)
              /\ i < Len(frame_log)
        /\ frame_log[Len(frame_log)].op = "submit"
        /\ frame_log[Len(frame_log)].arg[EvadeRendererIndex + 1]
              = EvadeDataAt(elapsed_time)
    /\ \A k \in 1..Len(gpu_queue) :
          \A i \in 1..Len(gpu_queue[k].reads) :
             gpu_queue[k].reads[i] # <<>> =>
                LET read == gpu_queue[k].reads[i]
                IN  /\ \A t \in read.times : FLe(gpu_queue[k].frame_time, t)
                    /\ \A w \in 1..Len(read.instance) :
                          \E t \in read.times :
                             read.instance[w] = EvadeInstanceAt(i, t)[w]

\* A frame at time 3 was submitted with the evade data of time 3, while the frame
\* before it is still on the queue: its draw fetched the first instance during the
\* copy of the recompute for time 3 and got words of both recomputes.
C16_Witness ==
    /\ FrameDrawn
    /\ elapsed_time = F(3)
    /\ evade_notes_instances[1] = ScenarioNote
    /\ frame_log[Len(frame_log)].arg[EvadeRendererIndex + 1] = EvadeDataAt(F(3))
    /\ Len(gpu_queue) = 2
    /\ gpu_queue[2].frame_time = F(3)
    /\ gpu_queue[1].reads[1] # <<>>
    /\ gpu_queue[1].reads[1].times = {gpu_queue[1].frame_time, F(3)}
    /\ gpu_queue[1].reads[1].instance
          \notin {EvadeInstanceAt(1, gpu_queue[1].frame_time), EvadeInstanceAt(1, F(3))}

\* Position in instanced_draw_data of the unit built from the evade notes: it
\* follows the hit, contact and flick units.
EvadeUnit == Len(UnitsBeforeEvade) + 1

UploadTargets(log) == {log[i].arg : i \in {j \in 1..Len(log) : log[j].op = "upload"}}

\* C21: a per-frame update (update_runner_position -> update_evade_notes) changes
\* only the transforms of the evade unit's instances and the runner transform of the
\* scene uniform: the draw units of the render description, the instance data of
\* every other unit, the colours and flags of the evade instances and the stored
\* start / end / trigger / duration of every movement stay as they were, and the one
\* upload goes to the unit built from the evade notes.
C21_UpdateTouchesOnlyEvadeTransforms ==
    [][InRedraw =>
          /\ instanced_draw_data' = instanced_draw_data
          /\ mosv_draw_data' = mosv_draw_data
          /\ renderers_grouped_by_pipeline' = renderers_grouped_by_pipeline
          /\ evade_notes_instances' = evade_notes_instances
          /\ Len(instance_buffers') = Len(instance_buffers)
          /\ \A k \in 1..Len(instance_buffers) :
                /\ instance_buffers'[k].size = instance_buffers[k].size
                /\ k # EvadeUnit => instance_buffers'[k] = instance_buffers[k]
          /\ Len(gpu_object_instances') = Len(gpu_object_instances)
          /\ \A i \in 1..Len(gpu_object_instances) :
                /\ gpu_object_instances'[i].base_color
                      = gpu_object_instances[i].base_color
                /\ gpu_object_instances'[i].apply_runner_transform
                      = gpu_object_instances[i].apply_runner_transform
          /\ scene_uniform'.view_projection \in {scene_uniform.view_projection,
                                                 ViewProjection}
          /\ (render_pc = "update" /\ render_pc' # "update") =>
                UploadTargets(frame_log') = {EvadeUnit - 1}
          /\ instanced_draw_data[EvadeUnit].instance_data
                = CastSlice(FromEvadeObjectInstances(evade_notes_instances))
    ]_vars

\* After a frame at time 2.5 the first evade instance has left its start position,
\* its buffer differs from the one the unit was created with, the runner transform
\* is set, and the platform unit still holds its resting instance.
C21_Witness ==
    /\ FrameDrawn
    /\ elapsed_time = <<5, 2>>
    /\ evade_notes_instances[1] = ScenarioNote
    /\ InstancePosition(1) = Vector2(F(5), F(5))
    /\ instance_buffers[EvadeUnit].data
          # instanced_draw_data[EvadeUnit].instance_data
    /\ instance_buffers[EvadeUnit + 1].data = RestingInstanceData
    /\ scene_uniform.runner_transform = <<Zero, Zero, <<-75, 2>>>>

----------------------------------------------------------------------------
(* Properties of the colour lookup and of the chart load.                  *)

HitTable == {0, 1, 2, 3, 4, 10, 11, 12, 13, 14}
LaneTable == {1, 2, 3, 12, 13, 14}

\* C19: the colour lookup gives a colour for every 16-bit hit/hold and lane type
\* code; for a code outside the table (99 or 109, say) it is (1,1,1,1).
C19_UnknownTypeDefaultColor ==
    color_result # <<"none">> =>
        /\ color_result[1] = "ok"
        /\ Len(color_result[2]) = 4
        /\ \A c \in 1..4 : color_result[2][c] \in {Zero, Half, One}
        /\ (color_kind = "hit" /\ color_code \notin HitTable) =>
               color_result[2] = <<One, One, One, One>>
        /\ (color_kind = "lane" /\ color_code \notin LaneTable) =>
               color_result[2] = <<One, One, One, One>>

\* The lane code 99 of an unrecognised lane was looked up.
C19_Witness ==
    /\ color_kind = "lane"
    /\ color_code = 99
    /\ color_result = <<"ok", <<One, One, One, One>>>>

\* The header lacks the starting tempo, the starting time signature or the tick
\* resolution.
LacksRequiredHeader ==
    \/ ogkr_header.bpm_definition = None
    \/ ogkr_header.meter_definition = None
    \/ ogkr_header.tick_resolution = None

\* C20: when the header lacks the starting tempo, the starting time signature or
\* the tick resolution, the load fails: no chart is produced, and main never gets
\* to build draw data, create the renderer or draw a frame.
C20_MissingHeaderIsFatal ==
    (main_pc # "idle" /\ LacksRequiredHeader) =>
        /\ chart = <<"none">>
        /\ main_pc \in {"start", "failed"}

\* A file that parses, with everything but the tick resolution, failed to load.
C20_Witness ==
    /\ main_pc = "failed"
    /\ parse_ok
    /\ ogkr_header.tick_resolution = None
    /\ ogkr_header.bpm_definition # None
    /\ ogkr_header.meter_definition # None
    /\ ogkr_header.x_resolution # None
    /\ chart = <<"none">>

----------------------------------------------------------------------------
(* Properties of create_evade_notes.                                       *)

\* The bullets whose palette is not skipped, in order: one per note built.
RECURSIVE BuiltFrom(_)
BuiltFrom(bs) ==
    IF bs = <<>> THEN <<>>
    ELSE IF SkippedPalette(Head(bs).palette) THEN BuiltFrom(Tail(bs))
    ELSE <<Head(bs)>> \o BuiltFrom(Tail(bs))

VisitedBullets == BuiltFrom(SubSeq(bullets, 1, bullet_cursor))

\* The exact (unrounded) difference end.time - duration of a movement.
ExactTrigger(movement) == DyadicAdd(movement.end.time, DyadicNeg(movement.duration))

\* C22 as stated: for every evade note built from a bullet with duration d and
\* resolved end position e, trigger_time = e.time - d, the start depth is
\* e.depth + d, and the movement ends at trigger_time + d, which equals e.time.
C22_TriggerPlusDurationIsEndTime ==
    \A i \in 1..Len(evade_notes) :
        LET m == evade_notes[i].movement
        IN  /\ m.end = VisitedBullets[i].position
            /\ m.duration = F32Mul(VisitedBullets[i].palette.speed, SpeedFactor)
            /\ m.trigger_time = F32Sub(m.end.time, m.duration)
            /\ m.start.z = F32Add(m.end.z, m.duration)
            /\ F32Add(m.trigger_time, m.duration) = m.end.time

\* C22 (amended): for every evade note built from a bullet with duration d and
\* resolved end position e, trigger_time is the f32 difference e.time - d and the
\* start depth the f32 sum e.depth + d; the movement ends at trigger_time + d,
\* which equals e.time whenever e.time - d is exact in f32 and otherwise is no
\* further from e.time than twice the rounding error of that difference.
C22_TriggerAndStartDepth ==
    \A i \in 1..Len(evade_notes) :
        LET m == evade_notes[i].movement
            error == DyadicAbs(DyadicAdd(m.trigger_time, DyadicNeg(ExactTrigger(m))))
            distance == DyadicAbs(DyadicAdd(F32Add(m.trigger_time, m.duration),
                                            DyadicNeg(m.end.time)))
        IN  /\ m.end = VisitedBullets[i].position
            /\ m.duration = F32Mul(VisitedBullets[i].palette.speed, SpeedFactor)
            /\ m.trigger_time = F32Sub(m.end.time, m.duration)
            /\ m.start.z = F32Add(m.end.z, m.duration)
            /\ m.trigger_time = ExactTrigger(m) =>
                   F32Add(m.trigger_time, m.duration) = m.end.time
            /\ DyadicLe(distance, DyadicAdd(error, error))

\* Two notes were built: one whose difference e.time - d is exact and ends at
\* e.time, and one ending at 0.4 whose difference is rounded, so that
\* trigger_time + d is not e.time.
C22_Witness ==
    /\ evade_pc = "done"
    /\ Len(evade_notes) = 2
    /\ evade_notes[1].movement.end.time = F(2)
    /\ evade_notes[1].movement.trigger_time = Half
    /\ F32Add(evade_notes[1].movement.trigger_time, evade_notes[1].movement.duration)
          = F(2)
    /\ evade_notes[2].movement.end.time = F32Of04
    /\ evade_notes[2].movement.trigger_time # ExactTrigger(evade_notes[2].movement)
    /\ F32Add(evade_notes[2].movement.trigger_time, evade_notes[2].movement.duration)
          # F32Of04

----------------------------------------------------------------------------
(* The fan-out tail of the strip.                                          *)

Min(x, y) == IF x <= y THEN x ELSE y
Max(x, y) == IF x >= y THEN x ELSE y

\* C24: for sides A and B of at least two points the strip has 2 * max(La, Lb)
\* vertices; for every k < max(La, Lb) position 2k holds A[min(k, La - 1)] and
\* position 2k + 1 holds B[min(k, Lb - 1)] (0-based): the last vertex of the
\* exhausted side is repeated against each remaining vertex of the other side.
C24_FanOutTail ==
    (tri_pc = "done" /\ Len(side_a_vertices) >= 2 /\ Len(side_b_vertices) >= 2) =>
        LET la == Len(side_a_vertices)
            lb == Len(side_b_vertices)
        IN  /\ PlaneOk
            /\ Len(PlaneVertices) = 2 * Max(la, lb)
            /\ \A k \in 0..(Max(la, lb) - 1) :
                  /\ PlaneVertices[2 * k + 1] = side_a_vertices[Min(k, la - 1) + 1]
                  /\ PlaneVertices[2 * k + 2] = side_b_vertices[Min(k, lb - 1) + 1]

----------------------------------------------------------------------------
(* The three change lists of the fold.                                     *)

\* The next pending change of the kind is due at the step of measure_index.
DueNow(kind) ==
    /\ CursorOf(kind) < Len(ListOf(kind))
    /\ ListOf(kind)[CursorOf(kind) + 1].measure <= measure_index + 1

\* C25: the three change lists are folded independently. At a measure step the
\* kinds whose next change is due are exactly the kinds applied, all of them in
\* this step; an applied change overwrites only the field of its kind (the other
\* fields and the subdivision keep their value unless their own change is applied
\* too); a step at which no change is due appends the composition of the measure
\* before it.
C25_IndependentFold ==
    [][(pc = "fold" /\ measure_index < num_measures) =>
          LET applied == {k \in Kinds : CursorOfNext(k) = CursorOf(k) + 1}
          IN  /\ applied = {k \in Kinds : DueNow(k)}
              /\ \A k \in Kinds \ applied :
                    /\ CursorOfNext(k) = CursorOf(k)
                    /\ FieldOf(k, current_measure') = FieldOf(k, current_measure)
              /\ \A k \in applied :
                    FieldOf(k, current_measure') = ListOf(k)[CursorOf(k) + 1].value
              /\ current_measure'.subdivision = current_measure.subdivision
              /\ measure_compositions'
                    = Append(measure_compositions, current_measure')
              /\ applied = {} =>
                    /\ current_measure' = current_measure
                    /\ measure_index >= 1 =>
                          measure_compositions'[measure_index + 1]
                              = measure_compositions[measure_index]
      ]_vars

----------------------------------------------------------------------------
(* Order of resolved positions.                                            *)

\* (m1, t1) precedes or equals (m2, t2) in chart order.
ChartOrder(m1, t1, m2, t2) == m1 < m2 \/ (m1 = m2 /\ t1 <= t2)

\* The tick lies on the grid of the measure or one past it.
TickInMeasure(m, t) ==
    /\ m < Len(measures)
    /\ 1 <= t
    /\ t <= SubdivisionOf(m) + 1

\* The answer r1 is at or before the answer r2, in time and in depth.
NotAfter(r1, r2) == FLe(r1[2], r2[2]) /\ FLe(r1[3], r2[3])

\* C26: on a timeline with positive tempo and time-signature values, of two
\* resolved chart points with ticks between 1 and subdivision + 1 of their measure
\* the one that precedes or equals the other in (measure, tick) order has the
\* smaller or equal time and the smaller or equal depth.
C26_ResolvePreservesOrder ==
    (/\ pc = "ready"
     /\ AllPositive
     /\ remembered # <<>>
     /\ TickInMeasure(remembered[1], remembered[2])
     /\ TickInMeasure(call[1], call[2])) =>
        /\ result[1] = "ok"
        /\ remembered[3][1] = "ok"
        /\ ChartOrder(remembered[1], remembered[2], call[1], call[2]) =>
               NotAfter(remembered[3], result)
        /\ ChartOrder(call[1], call[2], remembered[1], remembered[2]) =>
               NotAfter(result, remembered[3])

\* The point (measure 0, tick 3), inside a measure of four subdivisions, was
\* resolved before the point (measure 1, tick 1) and lies strictly before it; the
\* two measures differ in tempo.
C26_Witness ==
    /\ pc = "ready"
    /\ remembered # <<>>
    /\ remembered[1] = 0 /\ remembered[2] = 3
    /\ SubdivisionOf(0) = 4
    /\ call = <<1, 1>>
    /\ Len(measures) >= 2
    /\ measures[1].composition.bpm # measures[2].composition.bpm
    /\ result[1] = "ok"
    /\ FLt(remembered[3][2], result[2])
    /\ FLt(remembered[3][3], result[3])

----------------------------------------------------------------------------
(* The evade positions as points of their segment.                         *)

\* The point p is a pair of numbers and lies on the closed segment from a to b:
\* it is collinear with a and b and each coordinate lies between theirs.
Between(x, lo, hi) == (FLe(lo, x) /\ FLe(x, hi)) \/ (FLe(hi, x) /\ FLe(x, lo))

OnSegment(p, a, b) ==
    /\ IsFinite(p[1])
    /\ IsFinite(p[2])
    /\ FMul(FSub(p[1], a[1]), FSub(b[2], a[2]))
          = FMul(FSub(p[2], a[2]), FSub(b[1], a[1]))
    /\ Between(p[1], a[1], b[1])
    /\ Between(p[2], a[2], b[2])

\* C27: for every evade instance with duration >= 0 and every current_time the
\* position of the frame is a point of the closed segment from start to end; this
\* holds at current_time = trigger_time, at current_time = trigger_time + duration,
\* and for duration = 0 at current_time = trigger_time.
C27_PositionOnSegment ==
    FrameDrawn =>
        \A i \in 1..Len(evade_notes_instances) :
            FLe(Zero, evade_notes_instances[i].duration) =>
                OnSegment(InstancePosition(i),
                          evade_notes_instances[i].start_position,
                          evade_notes_instances[i].end_position)

----------------------------------------------------------------------------
(* Merged units without objects.                                           *)

\* The notes / lanes of the input that emit an object (every hold note; every lane
\* that is not of the enemy type).
Emitting == {i \in 1..Len(mosv_input) : ~Skipped(mosv_kind, mosv_input[i].ty)}

\* C28: a merged unit needs at least one emitted object: for zero hold notes, and
\* for lanes that are all of the enemy type or absent, the construction ends in a
\* panic on the missing last object index and no unit is produced; a unit that is
\* produced holds at least one object and its vertices.
C28_EmptyUnitPanics ==
    /\ (Emitting = {} /\ mosv_pc # "fold") =>
           /\ mosv_pc = "panic"
           /\ mosv_objects = <<>>
           /\ mosv_objects_indices = <<>>
    /\ mosv_pc = "done" =>
           /\ Emitting # {}
           /\ Len(mosv_objects) >= 1
           /\ mosv_vertices_len >= 4

\* The fold went over two lanes, both of the enemy type, emitted nothing and the
\* construction panicked.
C28_Witness ==
    /\ mosv_pc = "panic"
    /\ mosv_kind = "lanes"
    /\ Len(mosv_input) = 2
    /\ mosv_cursor = 2
    /\ \A i \in 1..2 : mosv_input[i].ty = 4
    /\ mosv_objects = <<>>

----------------------------------------------------------------------------
(* Frames in flight.                                                       *)

\* The pool a command buffer was allocated from.
PoolOf(command_buffer) == command_buffer_manager.command_buffers[command_buffer + 1]

\* C29: with MAX_FRAMES = 2 the slot of frame number a is a mod 2, and when
\* frame_begin resets the slot's command pool no submission recorded from a buffer
\* of that pool is still with the queue: for a >= 2 the semaphore has reached a - 1,
\* the value the submission of frame a - 2 signals, and only later submissions
\* (signalling a or more) may be pending.
C29_NoResetWhileExecuting ==
    [][(device_pc = "begin" /\ device_pc' = "record") =>
          LET a == frame_counters.absolute
          IN  /\ frame_counters.current = a % MAX_FRAMES
              /\ \A i \in 1..Len(gpu_queue) :
                    /\ PoolOf(gpu_queue[i].command_buffer) # frame_counters.current
                    /\ gpu_queue[i].signal >= a
              /\ a >= MAX_FRAMES => semaphore_graphics_frame >= a - 1]_vars

\* Frame 2 has reset pool 0 while the submission of frame 1 (pool 1, signalling 2)
\* is still with the queue and the semaphore stands at 1, the signal of frame 0.
C29_Witness ==
    /\ device_pc = "record"
    /\ frame_counters.absolute = 2
    /\ frame_counters.current = 0
    /\ semaphore_graphics_frame = 1
    /\ Len(gpu_queue) = 1
    /\ gpu_queue[1].signal = 2
    /\ PoolOf(gpu_queue[1].command_buffer) = 1
    /\ handed[1] = <<>>

----------------------------------------------------------------------------
(* The buffers a pool hands out.                                           *)

\* C30: get_command_buffer_at_pool(p) hands out only buffers allocated from pool p,
\* each at most once between two resets of pool p, and a request made when all
\* num_command_buffers_per_pool buffers of the pool are handed out returns the error
\* (no buffer of another pool, no out-of-range access).
C30_HandsOutOwnBuffersOnce ==
    /\ \A p \in DOMAIN handed :
          /\ \A k \in 1..Len(handed[p]) : PoolOf(handed[p][k]) = p - 1
          /\ \A k, l \in 1..Len(handed[p]) : k # l => handed[p][k] # handed[p][l]
    /\ (/\ last_request # <<>>
        /\ last_request[2] >= command_buffer_manager.num_command_buffers_per_pool)
          => last_request[3] = <<"err">>

====
